---- MODULE Spec2Model ----
(***************************************************************************)
(* Day 9 of the repository: the rectangle-coverage engine of solve_part2.  *)
(* A closed orthogonal loop of integer tiles is preprocessed into a 2-D    *)
(* prefix sum over a coordinate-compressed grid; the candidate search then *)
(* asks, for pairs of vertices, whether the rectangle they span holds only *)
(* boundary or interior tiles, and keeps the largest such area.            *)
(*                                                                         *)
(* Python lists are sequences (index k of the code is index k+1 here),     *)
(* dicts are functions on their key set, a raised exception is a record    *)
(* with raised = TRUE and, in the state, pc = "error".                     *)
(***************************************************************************)
EXTENDS Integers, Sequences, FiniteSets, TLC

\* ------------------------------------------------------------- bounds
\* The largest coordinate of the input plane: vertices lie on Axis \X Axis.
MaxCoord == 4
\* Every vertex list of at most MaxShort vertices is an input (diagonals too).
MaxShort == 3
\* Closed orthogonal loops of MaxShort+1 .. MaxVerts vertices are inputs.
MaxVerts == 6

Axis == {-1, 0, MaxCoord}
Points == Axis \X Axis

\* ------------------------------------------------------------ helpers
Range(s) == {s[k] : k \in 1..Len(s)}

\* min() / max() of a non-empty collection of integers
min(S) == CHOOSE m \in S : \A k \in S : m <= k
max(S) == CHOOSE m \in S : \A k \in S : m >= k

abs(v) == IF v < 0 THEN -v ELSE v

\* Python's order on 2-tuples of integers
tuple_less(a, b) == a[1] < b[1] \/ (a[1] = b[1] /\ a[2] < b[2])

int_less(a, b) == a < b

\* sorted(list)
sorted(s) == SortSeq(s, int_less)
sorted_intervals(s) == SortSeq(s, tuple_less)

\* sorted(set)
RECURSIVE sorted_set(_)
sorted_set(S) ==
    IF S = {} THEN <<>>
    ELSE LET m == min(S) IN <<m>> \o sorted_set(S \ {m})

\* bisect.bisect_left(a, x): the insertion point of x in the sorted list a,
\* left of any entries equal to x (lo, hi are the code's 0-based bounds).
RECURSIVE bisect_loop(_, _, _, _)
bisect_loop(a, x, lo, hi) ==
    IF lo >= hi THEN lo
    ELSE LET mid == (lo + hi) \div 2
         IN IF a[mid + 1] < x
            THEN bisect_loop(a, x, mid + 1, hi)
            ELSE bisect_loop(a, x, lo, mid)

bisect_left(a, x) == bisect_loop(a, x, 0, Len(a))

\* ----------------------------------------------------------- rect_area
rect_area(cord1, cord2) ==
    (abs(cord1[1] - cord2[1]) + 1) * (abs(cord1[2] - cord2[2]) + 1)

\* ------------------------------------------------------ merge_intervals
RECURSIVE merge_loop(_, _, _)
merge_loop(intervals, k, merged) ==
    IF k > Len(intervals) THEN merged
    ELSE LET start == intervals[k][1]
             end == intervals[k][2]
             last_start == merged[Len(merged)][1]
             last_end == merged[Len(merged)][2]
         IN IF start <= last_end + 1
            THEN merge_loop(intervals, k + 1,
                     [merged EXCEPT ![Len(merged)] =
                         <<last_start, max({last_end, end})>>])
            ELSE merge_loop(intervals, k + 1, Append(merged, <<start, end>>))

\* A plausible slip: only overlapping spans are merged (the `+ 1` is lost),
\* so touching spans such as (0, 1), (2, 3) stay apart.
RECURSIVE merge_loop_overlap_only(_, _, _)
merge_loop_overlap_only(intervals, k, merged) ==
    IF k > Len(intervals) THEN merged
    ELSE LET start == intervals[k][1]
             end == intervals[k][2]
             last_start == merged[Len(merged)][1]
             last_end == merged[Len(merged)][2]
         IN IF start <= last_end
            THEN merge_loop_overlap_only(intervals, k + 1,
                     [merged EXCEPT ![Len(merged)] =
                         <<last_start, max({last_end, end})>>])
            ELSE merge_loop_overlap_only(intervals, k + 1,
                     Append(merged, <<start, end>>))

merge_intervals_overlap_only(intervals) ==
    IF intervals = <<>> THEN <<>>
    ELSE LET s == sorted_intervals(intervals)
         IN merge_loop_overlap_only(s, 2, <<s[1]>>)

\* A plausible slip: the merged span ends at the absorbed interval's end
\* (`max` is lost), so an interval nested in the last span shortens it.
RECURSIVE merge_loop_last_end(_, _, _)
merge_loop_last_end(intervals, k, merged) ==
    IF k > Len(intervals) THEN merged
    ELSE LET start == intervals[k][1]
             end == intervals[k][2]
             last_start == merged[Len(merged)][1]
             last_end == merged[Len(merged)][2]
         IN IF start <= last_end + 1
            THEN merge_loop_last_end(intervals, k + 1,
                     [merged EXCEPT ![Len(merged)] = <<last_start, end>>])
            ELSE merge_loop_last_end(intervals, k + 1,
                     Append(merged, <<start, end>>))

merge_intervals_last_end(intervals) ==
    IF intervals = <<>> THEN <<>>
    ELSE LET s == sorted_intervals(intervals)
         IN merge_loop_last_end(s, 2, <<s[1]>>)

merge_intervals(intervals) ==
    IF intervals = <<>> THEN <<>>
    ELSE LET s == sorted_intervals(intervals)
         IN merge_loop(s, 2, <<s[1]>>)

\* ---------------------------------------------------- interval_contains
RECURSIVE contains_loop(_, _, _, _)
contains_loop(merged, value, lo, hi) ==
    IF lo > hi THEN FALSE
    ELSE LET mid == (lo + hi) \div 2
             start == merged[mid + 1][1]
             end == merged[mid + 1][2]
         IN IF value < start THEN contains_loop(merged, value, lo, mid - 1)
            ELSE IF value > end THEN contains_loop(merged, value, mid + 1, hi)
            ELSE TRUE

\* A plausible slip: the span's end is taken as exclusive (`value >= end`).
RECURSIVE contains_loop_exclusive(_, _, _, _)
contains_loop_exclusive(merged, value, lo, hi) ==
    IF lo > hi THEN FALSE
    ELSE LET mid == (lo + hi) \div 2
             start == merged[mid + 1][1]
             end == merged[mid + 1][2]
         IN IF value < start
            THEN contains_loop_exclusive(merged, value, lo, mid - 1)
            ELSE IF value >= end
            THEN contains_loop_exclusive(merged, value, mid + 1, hi)
            ELSE TRUE

interval_contains_exclusive(merged, value) ==
    contains_loop_exclusive(merged, value, 0, Len(merged) - 1)

interval_contains(merged, value) ==
    contains_loop(merged, value, 0, Len(merged) - 1)

\* ---------------------------------------------------------- build_edges
\* The edge of the consecutive pair (p, q): vertical when the x are equal,
\* else horizontal when the y are equal, else none (the code raises).
segment_kind(p, q) ==
    IF p[1] = q[1] THEN "vertical"
    ELSE IF p[2] = q[2] THEN "horizontal"
    ELSE "diagonal"

RECURSIVE build_edges_loop(_, _, _, _)
build_edges_loop(cs, k, ve, he) ==
    IF k >= Len(cs)
    THEN [raised |-> FALSE, vertical |-> ve, horizontal |-> he]
    ELSE LET p == cs[k + 1]
             q == cs[((k + 1) % Len(cs)) + 1]
             kind == segment_kind(p, q)
         IN IF kind = "vertical"
            THEN build_edges_loop(cs, k + 1,
                     Append(ve, <<p[1], min({p[2], q[2]}), max({p[2], q[2]})>>), he)
            ELSE IF kind = "horizontal"
            THEN build_edges_loop(cs, k + 1, ve,
                     Append(he, <<p[2], min({p[1], q[1]}), max({p[1], q[1]})>>))
            ELSE [raised |-> TRUE, vertical |-> <<>>, horizontal |-> <<>>]

\* A plausible slip: a diagonal pair is stored as a horizontal edge at the
\* first vertex's row instead of being refused.
RECURSIVE build_edges_loop_approx(_, _, _, _)
build_edges_loop_approx(cs, k, ve, he) ==
    IF k >= Len(cs)
    THEN [raised |-> FALSE, vertical |-> ve, horizontal |-> he]
    ELSE LET p == cs[k + 1]
             q == cs[((k + 1) % Len(cs)) + 1]
         IN IF p[1] = q[1]
            THEN build_edges_loop_approx(cs, k + 1,
                     Append(ve, <<p[1], min({p[2], q[2]}), max({p[2], q[2]})>>), he)
            ELSE build_edges_loop_approx(cs, k + 1, ve,
                     Append(he, <<p[2], min({p[1], q[1]}), max({p[1], q[1]})>>))

build_edges_approx(cs) == build_edges_loop_approx(cs, 0, <<>>, <<>>)

\* A plausible slip: the successor is coords[i + 1] without `% n`, so the
\* closing pair of a non-empty list indexes past the end and raises.
build_edges_no_wrap(cs) ==
    IF cs = <<>> THEN build_edges_loop(cs, 0, <<>>, <<>>)
    ELSE [raised |-> TRUE, vertical |-> <<>>, horizontal |-> <<>>]

build_edges(cs) == build_edges_loop(cs, 0, <<>>, <<>>)

\* ----------------------------------------------------- get_bounding_box
\* min() of an empty list raises ValueError.
get_bounding_box(cs) ==
    IF cs = <<>>
    THEN [raised |-> TRUE, box |-> <<>>]
    ELSE LET x_coordinates == {c[1] : c \in Range(cs)}
             y_coordinates == {c[2] : c \in Range(cs)}
         IN [raised |-> FALSE,
             box |-> <<min(x_coordinates), max(x_coordinates),
                       min(y_coordinates), max(y_coordinates)>>]

\* --------------------------------------------- build_edge_interval_maps
\* The (lo, hi) pairs of the edges whose fixed coordinate is key, in order.
RECURSIVE group_of(_, _, _)
group_of(edges, key, k) ==
    IF k > Len(edges) THEN <<>>
    ELSE IF edges[k][1] = key
         THEN <<(<<edges[k][2], edges[k][3]>>)>> \o group_of(edges, key, k + 1)
         ELSE group_of(edges, key, k + 1)

intervals_by_key(edges) ==
    [key \in {e[1] : e \in Range(edges)} |->
        merge_intervals(group_of(edges, key, 1))]

build_edge_interval_maps(ve, he) ==
    [vertical |-> intervals_by_key(ve), horizontal |-> intervals_by_key(he)]

\* ----------------------------------------------- build_compressed_edges
\* A plausible slip: the neighbours v - 1 and v + 1 are left out.
edges_set_no_neighbours(values, lo, hi) == {lo, hi + 1} \cup values

\* A plausible slip: the candidates are not clipped to [min, max + 1].
edges_set_unclipped(values, lo, hi) ==
    {lo, hi + 1} \cup {v + d : v \in values, d \in {-1, 0, 1}}

\* A plausible slip: of a coordinate's neighbours only v - 1 is added.
edges_set_without_next(values, lo, hi) ==
    {lo, hi + 1} \cup
    {c \in {v + d : v \in values, d \in {-1, 0}} : lo <= c /\ c <= hi + 1}

edges_set(values, lo, hi) ==
    {lo, hi + 1} \cup
    {c \in {v + d : v \in values, d \in {-1, 0, 1}} : lo <= c /\ c <= hi + 1}

edge_to_index(edges) ==
    [c \in Range(edges) |-> (CHOOSE k \in 1..Len(edges) : edges[k] = c) - 1]

build_compressed_edges(cs, min_x, max_x, min_y, max_y) ==
    LET xs == sorted_set(edges_set({c[1] : c \in Range(cs)}, min_x, max_x))
        ys == sorted_set(edges_set({c[2] : c \in Range(cs)}, min_y, max_y))
    IN [x_edges |-> xs, y_edges |-> ys,
        x_edge_to_index |-> edge_to_index(xs),
        y_edge_to_index |-> edge_to_index(ys)]

\* -------------------------------------- build_crossing_x_values_for_row
RECURSIVE crossing_loop(_, _, _)
crossing_loop(y, ve, k) ==
    IF k > Len(ve) THEN <<>>
    ELSE LET x == ve[k][1]
             y0 == ve[k][2]
             y1 == ve[k][3]
         IN IF y0 = y1 THEN crossing_loop(y, ve, k + 1)
            ELSE IF y0 <= y /\ y < y1
            THEN <<x>> \o crossing_loop(y, ve, k + 1)
            ELSE crossing_loop(y, ve, k + 1)

\* A plausible slip: the y-range is closed, `y0 <= y <= y1`, so an edge that
\* ends at y is counted too.
RECURSIVE crossing_loop_closed(_, _, _)
crossing_loop_closed(y, ve, k) ==
    IF k > Len(ve) THEN <<>>
    ELSE IF ve[k][2] # ve[k][3] /\ ve[k][2] <= y /\ y <= ve[k][3]
    THEN <<ve[k][1]>> \o crossing_loop_closed(y, ve, k + 1)
    ELSE crossing_loop_closed(y, ve, k + 1)

build_crossing_x_values_for_row_closed(y, ve) ==
    sorted(crossing_loop_closed(y, ve, 1))

\* A plausible slip: the trailing sort is left out, so the list keeps the
\* order in which build_edges met the edges.
build_crossing_x_values_for_row_unsorted(y, ve) == crossing_loop(y, ve, 1)

build_crossing_x_values_for_row(y, ve) == sorted(crossing_loop(y, ve, 1))

\* -------------------------------------------------- tile_is_on_boundary
\* A plausible slip: only the horizontal spans are consulted.
tile_is_on_boundary_horizontal_only(x, y, vint, hint) ==
    y \in DOMAIN hint /\ interval_contains(hint[y], x)

tile_is_on_boundary(x, y, vint, hint) ==
    IF y \in DOMAIN hint /\ interval_contains(hint[y], x) THEN TRUE
    ELSE IF x \in DOMAIN vint /\ interval_contains(vint[x], y) THEN TRUE
    ELSE FALSE

\* -------------------------------------- build_prefix_sum_from_scanlines
\* A plausible slip: crossings at or left of the tile (bisect_right's count)
\* are not distinguished; here the parity test is inverted.
inside_or_boundary_even(x, y, crossing_x_values, vint, hint) ==
    IF tile_is_on_boundary(x, y, vint, hint) THEN TRUE
    ELSE (bisect_left(crossing_x_values, x) % 2) = 0

\* A plausible slip: the boundary test is dropped and parity alone decides.
inside_or_boundary_parity_only(x, y, crossing_x_values, vint, hint) ==
    (bisect_left(crossing_x_values, x) % 2) = 1

inside_or_boundary(x, y, crossing_x_values, vint, hint) ==
    IF tile_is_on_boundary(x, y, vint, hint) THEN TRUE
    ELSE (bisect_left(crossing_x_values, x) % 2) = 1

\* A plausible slip: the cell is classified by the tile at its right end
\* x_edges[column_index + 1] instead of its left end.
allowed_tiles_right_end(xe, ye, crossing_x_values, vint, hint, row_index, column_index) ==
    IF inside_or_boundary(xe[column_index + 2], ye[row_index + 1],
                          crossing_x_values, vint, hint)
    THEN (xe[column_index + 2] - xe[column_index + 1])
         * (ye[row_index + 2] - ye[row_index + 1])
    ELSE 0

\* allowed_tiles of the cell (row_index, column_index), both 0-based
allowed_tiles(xe, ye, crossing_x_values, vint, hint, row_index, column_index) ==
    IF inside_or_boundary(xe[column_index + 1], ye[row_index + 1],
                          crossing_x_values, vint, hint)
    THEN (xe[column_index + 2] - xe[column_index + 1])
         * (ye[row_index + 2] - ye[row_index + 1])
    ELSE 0

\* running_row_sum after the cell column_index of the row has been added
RECURSIVE running_row_sum(_, _, _, _, _, _, _)
running_row_sum(xe, ye, crossing_x_values, vint, hint, row_index, column_index) ==
    IF column_index < 0 THEN 0
    ELSE running_row_sum(xe, ye, crossing_x_values, vint, hint,
                         row_index, column_index - 1)
         + allowed_tiles(xe, ye, crossing_x_values, vint, hint,
                         row_index, column_index)

\* A plausible slip: the row above is not added, so each row of the array
\* holds the running sums of its own cells only.
prefix_row_own_cells(xe, ye, ve, vint, hint, row_index, previous_row) ==
    LET crossing_x_values == build_crossing_x_values_for_row(ye[row_index + 1], ve)
    IN [c \in 1..Len(xe) |->
           IF c = 1 THEN 0
           ELSE running_row_sum(xe, ye, crossing_x_values, vint, hint,
                                row_index, c - 2)]

\* prefix_sum[row_index + 1] given prefix_sum[row_index]
prefix_row(xe, ye, ve, vint, hint, row_index, previous_row) ==
    LET crossing_x_values == build_crossing_x_values_for_row(ye[row_index + 1], ve)
    IN [c \in 1..Len(xe) |->
           IF c = 1 THEN 0
           ELSE previous_row[c]
                + running_row_sum(xe, ye, crossing_x_values, vint, hint,
                                  row_index, c - 2)]

RECURSIVE prefix_rows(_, _, _, _, _, _)
prefix_rows(xe, ye, ve, vint, hint, row_count) ==
    IF row_count = 0 THEN << [c \in 1..Len(xe) |-> 0] >>
    ELSE LET above == prefix_rows(xe, ye, ve, vint, hint, row_count - 1)
         IN Append(above,
                   prefix_row(xe, ye, ve, vint, hint, row_count - 1,
                              above[row_count]))

build_prefix_sum_from_scanlines(xe, ye, ve, vint, hint) ==
    prefix_rows(xe, ye, ve, vint, hint, Len(ye) - 1)

\* ------------------------------------- count_allowed_tiles_in_rectangle
\* A plausible slip: the far edges are looked up at max_x and max_y, which
\* leaves the rectangle's last column and row out of the count.
count_allowed_tiles_exclusive(ps, xmap, ymap, min_x, min_y, max_x, max_y) ==
    IF min_x \notin DOMAIN xmap \/ max_x \notin DOMAIN xmap
       \/ min_y \notin DOMAIN ymap \/ max_y \notin DOMAIN ymap
    THEN [raised |-> TRUE, count |-> 0]
    ELSE [raised |-> FALSE,
          count |-> ps[ymap[max_y] + 1][xmap[max_x] + 1]
                    - ps[ymap[min_y] + 1][xmap[max_x] + 1]
                    - ps[ymap[max_y] + 1][xmap[min_x] + 1]
                    + ps[ymap[min_y] + 1][xmap[min_x] + 1]]

\* A dict lookup of an absent key raises KeyError.
count_allowed_tiles_in_rectangle(ps, xmap, ymap, min_x, min_y, max_x, max_y) ==
    IF min_x \notin DOMAIN xmap \/ (max_x + 1) \notin DOMAIN xmap
       \/ min_y \notin DOMAIN ymap \/ (max_y + 1) \notin DOMAIN ymap
    THEN [raised |-> TRUE, count |-> 0]
    ELSE LET left == xmap[min_x]
             right == xmap[max_x + 1]
             bottom == ymap[min_y]
             top == ymap[max_y + 1]
         IN [raised |-> FALSE,
             count |-> ps[top + 1][right + 1] - ps[bottom + 1][right + 1]
                       - ps[top + 1][left + 1] + ps[bottom + 1][left + 1]]

\* ----------------------------------------------------- candidate search
\* A plausible slip: the comparison of the pruning test is turned around.
skip_candidate_reversed(area, best) == area >= best

\* A plausible slip: no candidate is skipped, so a smaller covered
\* rectangle replaces a larger one.
skip_candidate_never(area, best) == FALSE

\* `if area <= max_rect_area: continue`
skip_candidate(area, best) == area <= best

\* A plausible slip: a candidate is accepted when any of its tiles is allowed.
covered_any(count, area) == count > 0

\* `count_allowed_tiles_in_rectangle(...) == area`
covered(count, area) == count = area

\* The inclusive rectangle (min_x, min_y, max_x, max_y) of two corners
rectangle_of(p, q) ==
    <<(IF p[1] <= q[1] THEN p[1] ELSE q[1]),
      (IF p[2] <= q[2] THEN p[2] ELSE q[2]),
      (IF p[1] <= q[1] THEN q[1] ELSE p[1]),
      (IF p[2] <= q[2] THEN q[2] ELSE p[2])>>

area_of(rect) == (rect[3] - rect[1] + 1) * (rect[4] - rect[2] + 1)

\* ------------------------------------------------------------- inputs
shares_one(p, q) == (p[1] = q[1]) # (p[2] = q[2])

RECURSIVE ortho_paths(_)
ortho_paths(n) ==
    IF n = 1 THEN {<<p>> : p \in Points}
    ELSE UNION {{Append(s, p) : p \in {q \in Points : shares_one(s[Len(s)], q)}}
                : s \in ortho_paths(n - 1)}

ortho_loops(n) == {s \in ortho_paths(n) : shares_one(s[n], s[1])}

\* The rectangle (0,0)-(3,0)-(3,2)-(0,2) of the specification's scenario A
ScenarioA == << <<0, 0>>, <<3, 0>>, <<3, 2>>, <<0, 2>> >>

Inputs ==
    UNION {[1..n -> Points] : n \in 0..MaxShort}
    \cup UNION {ortho_loops(n) : n \in (MaxShort + 1)..MaxVerts}
    \cup {ScenarioA}

\* -------------------------------------------------------------- state
VARIABLES
    coords,                    \* the vertex list solve_part2 was called with
    pc,                        \* position in solve_part2
    error,                     \* the exception that ended the call, or "none"
    box,                       \* (min_x, max_x, min_y, max_y)
    vertical_edges,
    horizontal_edges,
    vertical_intervals_by_x,
    horizontal_intervals_by_y,
    x_edges,
    y_edges,
    x_edge_to_index,
    y_edge_to_index,
    prefix_sum,
    i,                         \* the candidate search's loop indices
    j,
    max_rect_area,
    result                     \* <<>> until solve_part2 returns, then <<area>>

vars == <<coords, pc, error, box, vertical_edges, horizontal_edges,
          vertical_intervals_by_x, horizontal_intervals_by_y,
          x_edges, y_edges, x_edge_to_index, y_edge_to_index, prefix_sum,
          i, j, max_rect_area, result>>

structure == <<box, vertical_edges, horizontal_edges,
               vertical_intervals_by_x, horizontal_intervals_by_y,
               x_edges, y_edges, x_edge_to_index, y_edge_to_index, prefix_sum>>

\* The other programs of the repository, each a record of its own state;
\* a program that is not running is Idle.
VARIABLES spans, dial, reactor, forklift, factory, cafeteria, playground

others == <<spans, dial, reactor, forklift, factory, cafeteria, playground>>

Idle == [pc |-> "idle"]

Init ==
    /\ cafeteria = Idle
    /\ playground = Idle
    /\ spans = Idle
    /\ dial = Idle
    /\ reactor = Idle
    /\ forklift = Idle
    /\ factory = Idle
    /\ coords \in Inputs
    /\ pc = "get_bounding_box"
    /\ error = "none"
    /\ box = <<>>
    /\ vertical_edges = <<>>
    /\ horizontal_edges = <<>>
    /\ vertical_intervals_by_x = <<>>
    /\ horizontal_intervals_by_y = <<>>
    /\ x_edges = <<>>
    /\ y_edges = <<>>
    /\ x_edge_to_index = <<>>
    /\ y_edge_to_index = <<>>
    /\ prefix_sum = <<>>
    /\ i = 0
    /\ j = 0
    /\ max_rect_area = 0
    /\ result = <<>>

\* build_allowed_tiles_prefix_sum, line 299
GetBoundingBox ==
    /\ UNCHANGED others
    /\ pc = "get_bounding_box"
    /\ LET r == get_bounding_box(coords)
       IN IF r.raised
          THEN /\ pc' = "error"
               /\ error' = "ValueError: min() arg is an empty sequence"
               /\ box' = box
          ELSE /\ pc' = "build_edges"
               /\ error' = error
               /\ box' = r.box
    /\ UNCHANGED <<coords, vertical_edges, horizontal_edges,
                   vertical_intervals_by_x, horizontal_intervals_by_y,
                   x_edges, y_edges, x_edge_to_index, y_edge_to_index,
                   prefix_sum, i, j, max_rect_area, result>>

\* build_allowed_tiles_prefix_sum, line 300
BuildEdges ==
    /\ UNCHANGED others
    /\ pc = "build_edges"
    /\ LET r == build_edges(coords)
       IN IF r.raised
          THEN /\ pc' = "error"
               /\ error' = "ValueError: Non-orthogonal segment in input"
               /\ UNCHANGED <<vertical_edges, horizontal_edges>>
          ELSE /\ pc' = "build_edge_interval_maps"
               /\ error' = error
               /\ vertical_edges' = r.vertical
               /\ horizontal_edges' = r.horizontal
    /\ UNCHANGED <<coords, box,
                   vertical_intervals_by_x, horizontal_intervals_by_y,
                   x_edges, y_edges, x_edge_to_index, y_edge_to_index,
                   prefix_sum, i, j, max_rect_area, result>>

\* build_allowed_tiles_prefix_sum, lines 302-304
BuildEdgeIntervalMaps ==
    /\ UNCHANGED others
    /\ pc = "build_edge_interval_maps"
    /\ LET r == build_edge_interval_maps(vertical_edges, horizontal_edges)
       IN /\ vertical_intervals_by_x' = r.vertical
          /\ horizontal_intervals_by_y' = r.horizontal
    /\ pc' = "build_compressed_edges"
    /\ UNCHANGED <<coords, error, box, vertical_edges, horizontal_edges,
                   x_edges, y_edges, x_edge_to_index, y_edge_to_index,
                   prefix_sum, i, j, max_rect_area, result>>

\* build_allowed_tiles_prefix_sum, lines 306-308
BuildCompressedEdges ==
    /\ UNCHANGED others
    /\ pc = "build_compressed_edges"
    /\ LET r == build_compressed_edges(coords, box[1], box[2], box[3], box[4])
       IN /\ x_edges' = r.x_edges
          /\ y_edges' = r.y_edges
          /\ x_edge_to_index' = r.x_edge_to_index
          /\ y_edge_to_index' = r.y_edge_to_index
    /\ pc' = "build_prefix_sum"
    /\ UNCHANGED <<coords, error, box, vertical_edges, horizontal_edges,
                   vertical_intervals_by_x, horizontal_intervals_by_y,
                   prefix_sum, i, j, max_rect_area, result>>

\* build_allowed_tiles_prefix_sum, lines 310-318, and solve_part2's entry
\* into its loops (lines 352-356)
BuildPrefixSum ==
    /\ UNCHANGED others
    /\ pc = "build_prefix_sum"
    /\ prefix_sum' = build_prefix_sum_from_scanlines(
                         x_edges, y_edges, vertical_edges,
                         vertical_intervals_by_x, horizontal_intervals_by_y)
    /\ pc' = "search"
    /\ i' = 0
    /\ j' = 1
    /\ max_rect_area' = 0
    /\ UNCHANGED <<coords, error, box, vertical_edges, horizontal_edges,
                   vertical_intervals_by_x, horizontal_intervals_by_y,
                   x_edges, y_edges, x_edge_to_index, y_edge_to_index, result>>

\* A plausible slip: the corners are normalised in place, so that the step
\* overwrites coords[i] with the rectangle's (min_x, min_y) corner.
SearchStepInPlace ==
    /\ UNCHANGED others
    /\ pc = "search"
    /\ j < Len(coords)
    /\ LET rect == rectangle_of(coords[i + 1], coords[j + 1])
           area == area_of(rect)
           q == count_allowed_tiles_in_rectangle(
                    prefix_sum, x_edge_to_index, y_edge_to_index,
                    rect[1], rect[2], rect[3], rect[4])
       IN /\ coords' = [coords EXCEPT ![i + 1] = <<rect[1], rect[2]>>]
          /\ max_rect_area' =
                IF ~skip_candidate(area, max_rect_area) /\ ~q.raised
                   /\ covered(q.count, area)
                THEN area ELSE max_rect_area
          /\ UNCHANGED <<pc, error>>
    /\ IF j + 1 < Len(coords)
       THEN /\ i' = i
            /\ j' = j + 1
       ELSE /\ i' = i + 1
            /\ j' = i + 2
    /\ UNCHANGED <<structure, result>>

\* One pass of the inner loop body of solve_part2 (lines 357-367) on the pair
\* (i, j), then the loops' advance to the next pair.
SearchStep ==
    /\ UNCHANGED others
    /\ pc = "search"
    /\ j < Len(coords)
    /\ LET rect == rectangle_of(coords[i + 1], coords[j + 1])
           area == area_of(rect)
           q == count_allowed_tiles_in_rectangle(
                    prefix_sum, x_edge_to_index, y_edge_to_index,
                    rect[1], rect[2], rect[3], rect[4])
       IN IF skip_candidate(area, max_rect_area)
          THEN /\ max_rect_area' = max_rect_area
               /\ UNCHANGED <<pc, error>>
          ELSE IF q.raised
          THEN /\ pc' = "error"
               /\ error' = "KeyError"
               /\ max_rect_area' = max_rect_area
          ELSE /\ max_rect_area' =
                     IF covered(q.count, area) THEN area ELSE max_rect_area
               /\ UNCHANGED <<pc, error>>
    /\ IF j + 1 < Len(coords)
       THEN /\ i' = i
            /\ j' = j + 1
       ELSE /\ i' = i + 1
            /\ j' = i + 2
    /\ UNCHANGED <<coords, structure, result>>

\* solve_part2, line 369
Return ==
    /\ UNCHANGED others
    /\ pc = "search"
    /\ j >= Len(coords)
    /\ pc' = "done"
    /\ result' = <<max_rect_area>>
    /\ UNCHANGED <<coords, error, structure, i, j, max_rect_area>>

Next ==
    \/ GetBoundingBox
    \/ BuildEdges
    \/ BuildEdgeIntervalMaps
    \/ BuildCompressedEdges
    \/ BuildPrefixSum
    \/ SearchStep
    \/ Return

all_vars == <<vars, others>>

Spec == Init /\ [][Next]_all_vars

\* The loops of the search are plain sequential code: an iteration that
\* can be taken is taken, and so is the return after the last one.
FairSpec == Spec /\ WF_all_vars(SearchStep \/ Return)

\* ---------------------------------------------------------------------
\* Reference definitions for the properties: the polygon as geometry, tile
\* by tile, without edges lists, compression or prefix sums.
\* ---------------------------------------------------------------------
Successor(cs, k) == cs[(k % Len(cs)) + 1]

SegmentTiles(p, q) ==
    (min({p[1], q[1]})..max({p[1], q[1]})) \X (min({p[2], q[2]})..max({p[2], q[2]}))

IsDiagonal(p, q) == p[1] # q[1] /\ p[2] # q[2]

HasDiagonal(cs) == \E k \in 1..Len(cs) : IsDiagonal(cs[k], Successor(cs, k))

IsOrthogonalLoop(cs) == cs # <<>> /\ ~HasDiagonal(cs)

\* The tile lies on the segment between two consecutive vertices.
OnPolygonEdge(cs, t) ==
    \E k \in 1..Len(cs) : t \in SegmentTiles(cs[k], Successor(cs, k))

\* Even/odd rule along the vertical ray that leaves the tile upwards: the
\* horizontal edges above the tile whose half-open x range holds the tile.
StrictlyInside(cs, t) ==
    Cardinality({k \in 1..Len(cs) :
        LET p == cs[k]
            q == Successor(cs, k)
        IN /\ p[2] = q[2]
           /\ p[1] # q[1]
           /\ p[2] > t[2]
           /\ min({p[1], q[1]}) <= t[1]
           /\ t[1] < max({p[1], q[1]})}) % 2 = 1

TileAllowed(cs, t) == OnPolygonEdge(cs, t) \/ StrictlyInside(cs, t)

RectTiles(rect) == (rect[1]..rect[3]) \X (rect[2]..rect[4])

BruteCount(cs, rect) == Cardinality({t \in RectTiles(rect) : TileAllowed(cs, t)})

Pairs(cs) == {pr \in (1..Len(cs)) \X (1..Len(cs)) : pr[1] < pr[2]}

PairRect(cs, pr) == rectangle_of(cs[pr[1]], cs[pr[2]])

BruteMax(cs) ==
    max({0} \cup {rect_area(cs[pr[1]], cs[pr[2]]) : pr \in
            {qr \in Pairs(cs) :
                \A t \in RectTiles(PairRect(cs, qr)) : TileAllowed(cs, t)}})

\* A simple closed orthogonal polygon: distinct vertices, consecutive edges
\* meet in their shared vertex only, other edges do not meet.
IsSimplePolygon(cs) ==
    /\ Len(cs) >= 4
    /\ ~HasDiagonal(cs)
    /\ \A a, b \in 1..Len(cs) : a < b => cs[a] # cs[b]
    /\ \A a, b \in 1..Len(cs) : a < b =>
          SegmentTiles(cs[a], Successor(cs, a))
              \cap SegmentTiles(cs[b], Successor(cs, b))
          = IF b = a + 1 THEN {cs[b]}
            ELSE IF a = 1 /\ b = Len(cs) THEN {cs[1]}
            ELSE {}

BoxRect(cs) ==
    <<min({c[1] : c \in Range(cs)}), min({c[2] : c \in Range(cs)}),
      max({c[1] : c \in Range(cs)}), max({c[2] : c \in Range(cs)})>>

\* The structure is built: the candidate search runs or has returned.
Built == pc \in {"search", "done"}

Query(rect) ==
    count_allowed_tiles_in_rectangle(prefix_sum, x_edge_to_index, y_edge_to_index,
                                     rect[1], rect[2], rect[3], rect[4])

\* ------------------------------------------------------------------ C1
\* C1: for a simple closed orthogonal polygon, solve_part2 returns the
\* maximum inclusive area over the pairs of vertices whose rectangle holds
\* only tiles on the polygon's boundary or strictly inside it (0 if none).
C1_MaxCoveredArea ==
    (pc = "done" /\ Len(coords) >= 2 /\ IsSimplePolygon(coords))
        => result = <<BruteMax(coords)>>

\* A polygon whose best rectangle is smaller than its bounding box, returned.
C1_Witness ==
    /\ pc = "done"
    /\ IsSimplePolygon(coords)
    /\ result = <<BruteMax(coords)>>
    /\ result[1] > 0
    /\ result[1] < area_of(BoxRect(coords))

\* ------------------------------------------------------------------ C2
\* C2: for a simple orthogonal polygon and every pair of its vertices,
\* count_allowed_tiles_in_rectangle on the pair's rectangle equals the
\* number of tiles of the rectangle that a tile-by-tile scan finds on the
\* boundary or inside.
C2_QueryMatchesBruteForce ==
    (Built /\ IsSimplePolygon(coords)) =>
        \A pr \in Pairs(coords) :
            LET q == Query(PairRect(coords, pr))
            IN ~q.raised /\ q.count = BruteCount(coords, PairRect(coords, pr))

\* A pair whose rectangle is only partly allowed, in a polygon with a cell
\* wider than one tile.
C2_Witness ==
    /\ Built
    /\ IsSimplePolygon(coords)
    /\ \E pr \in Pairs(coords) :
          LET q == Query(PairRect(coords, pr))
          IN /\ q.count = BruteCount(coords, PairRect(coords, pr))
             /\ q.count > 0
             /\ q.count < area_of(PairRect(coords, pr))
    /\ \E k \in 1..(Len(x_edges) - 1) : x_edges[k + 1] - x_edges[k] > 1

\* ------------------------------------------------------------------ C3
\* C3: when some consecutive pair of vertices (the closing pair included)
\* differs in both coordinates, the call ends in the geometry error of
\* build_edges and no edge, prefix sum or area is ever produced; and that
\* error is raised for no other input.
GeometryError == "ValueError: Non-orthogonal segment in input"

C3_DiagonalRaises ==
    /\ (coords # <<>> /\ HasDiagonal(coords)) =>
          /\ pc \in {"get_bounding_box", "build_edges", "error"}
          /\ pc = "error" => error = GeometryError
          /\ vertical_edges = <<>>
          /\ horizontal_edges = <<>>
          /\ prefix_sum = <<>>
          /\ result = <<>>
    /\ (pc = "error" /\ error = GeometryError) => HasDiagonal(coords)

\* Only the closing pair last -> first is diagonal, and the call has failed.
C3_Witness ==
    /\ pc = "error"
    /\ error = GeometryError
    /\ Len(coords) = 3
    /\ IsDiagonal(coords[3], coords[1])
    /\ ~IsDiagonal(coords[1], coords[2])
    /\ ~IsDiagonal(coords[2], coords[3])
    /\ vertical_edges = <<>> /\ horizontal_edges = <<>>
    /\ prefix_sum = <<>> /\ result = <<>>

\* ------------------------------------------------------------------ C4
\* C4: solve_part2 on the empty vertex list returns 0 and does not fail.
C4_EmptyReturnsZero ==
    coords = <<>> => (pc # "error" /\ (pc = "done" => result = <<0>>))

\* ------------------------------------------------------------------ C5
\* C5: solve_part2 on a single vertex raises nothing and returns 0; the
\* vertex closes onto itself as one degenerate vertical edge.
C5_SingleVertexZero ==
    Len(coords) = 1 =>
        /\ pc # "error"
        /\ error = "none"
        /\ pc = "done" => result = <<0>>
        /\ pc \notin {"get_bounding_box", "build_edges"} =>
              /\ vertical_edges = << <<coords[1][1], coords[1][2], coords[1][2]>> >>
              /\ horizontal_edges = <<>>

C5_Witness ==
    /\ Len(coords) = 1
    /\ pc = "done"
    /\ result = <<0>>
    /\ Len(vertical_edges) = 1

\* ------------------------------------------------------------------ C6
\* C6 as stated: solve_part2 on any two vertices returns 0, without error.
C6_TwoVerticesZero ==
    Len(coords) = 2 => (pc # "error" /\ (pc = "done" => result = <<0>>))

\* C6 amended: two vertices that share an x or a y raise nothing and return
\* the inclusive area of the segment between them (at least 1, never 0);
\* two vertices that differ in both coordinates end in the geometry error.
C6_TwoVerticesSegmentArea ==
    Len(coords) = 2 =>
        IF IsDiagonal(coords[1], coords[2])
        THEN /\ pc \in {"get_bounding_box", "build_edges", "error"}
             /\ pc = "error" => error = GeometryError
             /\ result = <<>>
        ELSE /\ pc # "error"
             /\ pc = "done" =>
                   /\ result = <<rect_area(coords[1], coords[2])>>
                   /\ result[1] >= 1

C6_Witness ==
    /\ Len(coords) = 2
    /\ pc = "done"
    /\ coords[1] # coords[2]
    /\ result = <<rect_area(coords[1], coords[2])>>
    /\ result[1] > 1

\* ------------------------------------------------------------------ C7
\* The compressed cell (0-based column and row) that holds the tile
ColumnOf(x) == (CHOOSE k \in 1..(Len(x_edges) - 1) :
                    x_edges[k] <= x /\ x < x_edges[k + 1]) - 1
RowOf(y) == (CHOOSE k \in 1..(Len(y_edges) - 1) :
                    y_edges[k] <= y /\ y < y_edges[k + 1]) - 1

\* The weight the prefix sum holds for the cell (row, column)
CellWeight(row, column) ==
    prefix_sum[row + 2][column + 2] - prefix_sum[row + 1][column + 2]
    - prefix_sum[row + 2][column + 1] + prefix_sum[row + 1][column + 1]

CellArea(row, column) ==
    (x_edges[column + 2] - x_edges[column + 1]) * (y_edges[row + 2] - y_edges[row + 1])

\* Crossings strictly left of the representative tile of the tile's cell
CrossingsLeft(t) ==
    bisect_left(build_crossing_x_values_for_row(y_edges[RowOf(t[2]) + 1],
                                                vertical_edges),
                x_edges[ColumnOf(t[1]) + 1])

\* C7: in every closed orthogonal loop, each tile on a polygon edge lies in
\* a compressed cell that the prefix sum weights as allowed (its full
\* width * height), whatever the parity of the crossings to its left.
C7_BoundaryTilesAllowed ==
    Built =>
        \A t \in RectTiles(BoxRect(coords)) :
            OnPolygonEdge(coords, t) =>
                CellWeight(RowOf(t[2]), ColumnOf(t[1]))
                    = CellArea(RowOf(t[2]), ColumnOf(t[1]))

\* An edge tile with an even number of crossings to its left, in a cell
\* wider than one tile, weighted as allowed.
C7_Witness ==
    /\ Built
    /\ \E t \in RectTiles(BoxRect(coords)) :
          /\ OnPolygonEdge(coords, t)
          /\ CrossingsLeft(t) % 2 = 0
          /\ CellArea(RowOf(t[2]), ColumnOf(t[1])) > 1
          /\ CellWeight(RowOf(t[2]), ColumnOf(t[1]))
                = CellArea(RowOf(t[2]), ColumnOf(t[1]))

\* ------------------------------------------------------------------ C8
\* The candidate search with the pruning test removed: the coverage query
\* runs on every pair, in the code's order, and the maximum covered area is
\* kept.
RECURSIVE UnprunedSearch(_, _, _, _)
UnprunedSearch(cs, a, b, best) ==
    IF b >= Len(cs) THEN best
    ELSE LET rect == rectangle_of(cs[a + 1], cs[b + 1])
             q == Query(rect)
             kept == IF ~q.raised /\ covered(q.count, area_of(rect))
                        /\ area_of(rect) > best
                     THEN area_of(rect) ELSE best
         IN IF b + 1 < Len(cs)
            THEN UnprunedSearch(cs, a, b + 1, kept)
            ELSE UnprunedSearch(cs, a + 1, a + 2, kept)

IsRectangleLoop(cs) == Len(cs) = 4 /\ IsSimplePolygon(cs)

\* C9: for a polygon that is a rectangle given by its four corners in loop
\* order, the query on the rectangle of the two diagonal corners counts
\* every tile, and solve_part2 returns the full inclusive area; for
\* (0,0),(3,0),(3,2),(0,2) that is 12 of 12 and 12.
C9_RectangleFullyCovered ==
    /\ (Built /\ IsRectangleLoop(coords)) =>
          /\ PairRect(coords, <<1, 3>>) = BoxRect(coords)
          /\ Query(BoxRect(coords)).count = rect_area(coords[1], coords[3])
          /\ pc = "done" => result = <<rect_area(coords[1], coords[3])>>
    /\ (Built /\ coords = ScenarioA) =>
          /\ Query(<<0, 0, 3, 2>>).count = 12
          /\ pc = "done" => result = <<12>>

C9_Witness ==
    /\ pc = "done"
    /\ coords = ScenarioA
    /\ IsRectangleLoop(coords)
    /\ Query(BoxRect(coords)).count = 12
    /\ result = <<12>>

\* ----------------------------------------------------------------- C10
\* An L-shaped polygon: a simple orthogonal hexagon, every vertex a corner.
IsCorner(cs, k) ==
    LET p == cs[((k + Len(cs) - 2) % Len(cs)) + 1]
        q == Successor(cs, k)
    IN p[1] # q[1] /\ p[2] # q[2]

IsLShape(cs) ==
    /\ Len(cs) = 6
    /\ IsSimplePolygon(cs)
    /\ \A k \in 1..6 : IsCorner(cs, k)

\* C10: in an L-shaped polygon the pair of vertices whose rectangle is the
\* whole bounding box, and so spans the notch, is rejected: the query
\* counts fewer tiles than the rectangle's area, and solve_part2 returns
\* less than the bounding box's area.
C10_NotchRejected ==
    (Built /\ IsLShape(coords)) =>
        /\ \E pr \in Pairs(coords) : PairRect(coords, pr) = BoxRect(coords)
        /\ \A pr \in Pairs(coords) :
              PairRect(coords, pr) = BoxRect(coords) =>
                  /\ ~Query(BoxRect(coords)).raised
                  /\ Query(BoxRect(coords)).count < area_of(BoxRect(coords))
        /\ max_rect_area < area_of(BoxRect(coords))
        /\ pc = "done" => result[1] < area_of(BoxRect(coords))

\* An L whose notch is several tiles wide, searched to the end.
C10_Witness ==
    /\ pc = "done"
    /\ IsLShape(coords)
    /\ Query(BoxRect(coords)).count > 0
    /\ area_of(BoxRect(coords)) - Query(BoxRect(coords)).count > 1
    /\ result[1] > 0
    /\ result[1] < area_of(BoxRect(coords))

\* ----------------------------------------------------------------- C11
\* C11: for every non-empty orthogonal vertex list and every pair of its
\* vertices, min_x, max_x + 1, min_y and max_y + 1 are keys of the index
\* maps and the indices lie inside the prefix-sum array; the search never
\* ends in a lookup error.
C11_QueryKeysPresent ==
    /\ error # "KeyError"
    /\ Built =>
          \A pr \in Pairs(coords) :
              LET rect == PairRect(coords, pr)
              IN /\ {rect[1], rect[3] + 1} \subseteq DOMAIN x_edge_to_index
                 /\ {rect[2], rect[4] + 1} \subseteq DOMAIN y_edge_to_index
                 /\ \A c \in {rect[1], rect[3] + 1} :
                       x_edge_to_index[c] \in 0..(Len(prefix_sum[1]) - 1)
                 /\ \A c \in {rect[2], rect[4] + 1} :
                       y_edge_to_index[c] \in 0..(Len(prefix_sum) - 1)
                 /\ ~Query(rect).raised

\* A finished search with a negative corner and a pair whose max_x + 1 is
\* neither a vertex coordinate nor the bounding box's max + 1.
C11_Witness ==
    /\ pc = "done"
    /\ \E pr \in Pairs(coords) :
          LET rect == PairRect(coords, pr)
          IN /\ rect[1] < 0
             /\ rect[3] < box[2]
             /\ (rect[3] + 1) \notin {c[1] : c \in Range(coords)}
             /\ (rect[3] + 1) \in DOMAIN x_edge_to_index
             /\ ~Query(rect).raised

AxisAsClaimed(edges, index_of, values) ==
    /\ \A k \in 1..(Len(edges) - 1) : edges[k] < edges[k + 1]
    /\ Range(edges) =
          {min(values), max(values) + 1}
          \cup {c \in min(values)..(max(values) + 1) :
                   \E v \in values : c - v \in {-1, 0, 1}}
    /\ DOMAIN index_of = Range(edges)
    /\ \A c \in DOMAIN index_of : edges[index_of[c] + 1] = c

Compressed(cs) ==
    build_compressed_edges(cs, min({c[1] : c \in Range(cs)}),
                               max({c[1] : c \in Range(cs)}),
                               min({c[2] : c \in Range(cs)}),
                               max({c[2] : c \in Range(cs)}))

\* C20: for every non-empty vertex list the axis arrays of
\* build_compressed_edges are strictly increasing, are exactly the claimed
\* sets, and the index maps are their inverses. Lists that reach the call
\* are checked on the state it leaves, lists with a diagonal (which raise
\* before the call) on the function itself.
C20_CompressedAxes ==
    /\ pc \in {"build_prefix_sum", "search", "done"} =>
          /\ AxisAsClaimed(x_edges, x_edge_to_index, {c[1] : c \in Range(coords)})
          /\ AxisAsClaimed(y_edges, y_edge_to_index, {c[2] : c \in Range(coords)})
    /\ (pc = "error" /\ coords # <<>>) =>
          /\ AxisAsClaimed(Compressed(coords).x_edges,
                           Compressed(coords).x_edge_to_index,
                           {c[1] : c \in Range(coords)})
          /\ AxisAsClaimed(Compressed(coords).y_edges,
                           Compressed(coords).y_edge_to_index,
                           {c[2] : c \in Range(coords)})

\* Axes with a negative coordinate, a gap wider than one tile and a
\* neighbour that is no vertex coordinate.
C20_Witness ==
    /\ pc = "build_prefix_sum"
    /\ x_edges[1] < 0
    /\ \E k \in 1..(Len(x_edges) - 1) : x_edges[k + 1] - x_edges[k] > 1
    /\ \E c \in Range(y_edges) :
          /\ c \notin {v[2] : v \in Range(coords)}
          /\ c # box[4] + 1
    /\ x_edge_to_index[x_edges[Len(x_edges)]] = Len(x_edges) - 1

\* =====================================================================
\* The programs below run on their own: while one of them runs, the
\* solve_part2 call of day 9 above is not running.
\* =====================================================================
Day9Idle ==
    /\ coords = <<>>
    /\ pc = "idle"
    /\ error = "none"
    /\ box = <<>>
    /\ vertical_edges = <<>>
    /\ horizontal_edges = <<>>
    /\ vertical_intervals_by_x = <<>>
    /\ horizontal_intervals_by_y = <<>>
    /\ x_edges = <<>>
    /\ y_edges = <<>>
    /\ x_edge_to_index = <<>>
    /\ y_edge_to_index = <<>>
    /\ prefix_sum = <<>>
    /\ i = 0
    /\ j = 0
    /\ max_rect_area = 0
    /\ result = <<>>

\* ---------------------------------------------------------------------
\* merge_intervals and interval_contains of day 9, called on their own:
\* a caller holds a list of inclusive intervals, merges it, then asks
\* whether a value lies in the merged spans.
\* ---------------------------------------------------------------------
\* Interval ends lie in 0..MaxEnd.
MaxEnd == 4
\* The caller's list holds at most MaxSpans intervals.
MaxSpans == 3

Intervals == {iv \in (0..MaxEnd) \X (0..MaxEnd) : iv[1] <= iv[2]}

IntervalLists == UNION {[1..n -> Intervals] : n \in 0..MaxSpans}

Values == -1..(MaxEnd + 1)

InitSpans ==
    /\ Day9Idle
    /\ cafeteria = Idle
    /\ playground = Idle
    /\ dial = Idle
    /\ reactor = Idle
    /\ forklift = Idle
    /\ factory = Idle
    /\ spans \in {[pc |-> "merge_intervals", intervals |-> l, merged |-> <<>>,
                   value |-> 0, found |-> FALSE] : l \in IntervalLists}

\* merged = merge_intervals(intervals); the caller's list is another object
\* than the sorted copy the function works on (line 58).
MergeIntervals ==
    /\ spans.pc = "merge_intervals"
    /\ spans' = [spans EXCEPT !.pc = "interval_contains",
                              !.merged = merge_intervals(spans.intervals)]
    /\ UNCHANGED <<vars, dial, reactor, forklift, factory, cafeteria, playground>>

\* found = interval_contains(merged, value)
IntervalContains ==
    /\ spans.pc = "interval_contains"
    /\ \E value \in Values :
          spans' = [spans EXCEPT !.pc = "done",
                                 !.value = value,
                                 !.found = interval_contains(spans.merged, value)]
    /\ UNCHANGED <<vars, dial, reactor, forklift, factory, cafeteria, playground>>

NextSpans == MergeIntervals \/ IntervalContains

SpecSpans == InitSpans /\ [][NextSpans]_all_vars

\* ----------------------------------------------------------------- C18
\* C18: for every list of inclusive intervals (lo <= hi) merge_intervals
\* returns a list sorted by start in which each span's start is greater
\* than the previous span's end + 1; the empty list gives the empty list;
\* the caller's list is not modified.
C18_MergedDisjoint ==
    /\ [](spans.pc \in {"interval_contains", "done"} =>
            /\ \A k \in 1..(Len(spans.merged) - 1) :
                  spans.merged[k + 1][1] > spans.merged[k][2] + 1
            /\ \A k \in 1..Len(spans.merged) :
                  spans.merged[k][1] <= spans.merged[k][2]
            /\ (spans.intervals = <<>>) <=> (spans.merged = <<>>))
    /\ [][spans.pc = "merge_intervals" =>
             spans'.intervals = spans.intervals]_all_vars

\* Three unsorted intervals, two of which only touch, merged into two spans.
C18_Witness ==
    /\ spans.pc = "interval_contains"
    /\ Len(spans.intervals) = 3
    /\ Len(spans.merged) = 2
    /\ spans.intervals[1][1] > spans.intervals[2][1]
    /\ \E a \in 1..3, b \in 1..3 :
          /\ spans.intervals[b][1] = spans.intervals[a][2] + 1
          /\ \A c \in 1..3 : ~(spans.intervals[c][1] <= spans.intervals[a][2]
                               /\ spans.intervals[a][2] < spans.intervals[c][2])

\* ----------------------------------------------------------------- C19
\* The number of passes of the while loop of interval_contains.
RECURSIVE contains_passes(_, _, _, _)
contains_passes(merged, value, lo, hi) ==
    IF lo > hi THEN 0
    ELSE LET mid == (lo + hi) \div 2
         IN IF value < merged[mid + 1][1]
            THEN 1 + contains_passes(merged, value, lo, mid - 1)
            ELSE IF value > merged[mid + 1][2]
            THEN 1 + contains_passes(merged, value, mid + 1, hi)
            ELSE 1

\* C19: on the spans merge_intervals produced and every value, the binary
\* search interval_contains ends (within len(merged) passes) and returns
\* True exactly when some span has lo <= value <= hi; False on no spans.
C19_ContainsIffInSomeSpan ==
    spans.pc = "done" =>
        /\ spans.found <=>
              \E k \in 1..Len(spans.merged) :
                  /\ spans.merged[k][1] <= spans.value
                  /\ spans.value <= spans.merged[k][2]
        /\ spans.merged = <<>> => ~spans.found
        /\ contains_passes(spans.merged, spans.value, 0, Len(spans.merged) - 1)
              <= Len(spans.merged)

\* The value is the end of the last of three spans.
C19_Witness ==
    /\ spans.pc = "done"
    /\ spans.found
    /\ Len(spans.merged) = 3
    /\ spans.value = spans.merged[3][2]
    /\ Len(spans.intervals) = 3

\* ---------------------------------------------------------------------
\* Day 1: the dial of DIAL_SIZE positions, solve_part2.
\* An instruction such as "L68" is held as the pair parse_instruction
\* makes of it: <<instruction[0], int(instruction[1:])>>.
\* ---------------------------------------------------------------------
DIAL_SIZE == 100
STARTING_POSITION == 50

\* Distances lie in 0..MaxDistance (two full turns and a click).
MaxDistance == 201
\* The instruction list holds at most MaxInstructions instructions.
MaxInstructions == 2

Instructions == {"L", "R"} \X (0..MaxDistance)

InstructionLists == UNION {[1..n -> Instructions] : n \in 0..MaxInstructions}

rotate(position, direction, distance) ==
    IF direction = "R" THEN (position + distance) % DIAL_SIZE
    ELSE IF direction = "L" THEN (position - distance) % DIAL_SIZE
    ELSE position % DIAL_SIZE

\* A plausible slip: the left branch mirrors the right one without the
\* shift by one click, so a start on 0 is counted and a landing on 0 is not.
count_zeros_crossed_mirrored(position, direction, distance) ==
    IF direction = "R"
    THEN ((position + distance) \div DIAL_SIZE) - (position \div DIAL_SIZE)
    ELSE IF direction = "L"
    THEN (position \div DIAL_SIZE) - ((position - distance) \div DIAL_SIZE)
    ELSE 0

count_zeros_crossed(position, direction, distance) ==
    IF direction = "R"
    THEN ((position + distance) \div DIAL_SIZE) - (position \div DIAL_SIZE)
    ELSE IF direction = "L"
    THEN ((position - 1) \div DIAL_SIZE)
         - ((position - distance - 1) \div DIAL_SIZE)
    ELSE 0

InitDial ==
    /\ Day9Idle
    /\ cafeteria = Idle
    /\ playground = Idle
    /\ spans = Idle
    /\ reactor = Idle
    /\ forklift = Idle
    /\ factory = Idle
    /\ dial \in {[pc |-> "loop", instructions |-> l, k |-> 0,
                  position |-> STARTING_POSITION, total |-> 0,
                  result |-> <<>>] : l \in InstructionLists}

\* One pass of the for loop of solve_part2 (lines 103-106).
DialStep ==
    /\ dial.pc = "loop"
    /\ dial.k < Len(dial.instructions)
    /\ LET instruction == dial.instructions[dial.k + 1]
       IN dial' = [dial EXCEPT
                     !.k = dial.k + 1,
                     !.total = dial.total
                         + count_zeros_crossed(dial.position, instruction[1],
                                               instruction[2]),
                     !.position = rotate(dial.position, instruction[1],
                                         instruction[2])]
    /\ UNCHANGED <<vars, spans, reactor, forklift, factory, cafeteria, playground>>

\* return total (line 108)
DialReturn ==
    /\ dial.pc = "loop"
    /\ dial.k >= Len(dial.instructions)
    /\ dial' = [dial EXCEPT !.pc = "done", !.result = <<dial.total>>]
    /\ UNCHANGED <<vars, spans, reactor, forklift, factory, cafeteria, playground>>

NextDial == DialStep \/ DialReturn

SpecDial == InitDial /\ [][NextDial]_all_vars

\* ----------------------------------------------------------------- C14
\* The dial turned click by click: each click moves it one position,
\* wrapping at DIAL_SIZE, so after c clicks it points at AfterClicks; a
\* click is counted when the dial points at 0 after it.
AfterClicks(position, direction, c) ==
    IF direction = "R" THEN (position + c) % DIAL_SIZE
    ELSE (position - c) % DIAL_SIZE

ClickByClick(position, direction, clicks) ==
    [position |-> AfterClicks(position, direction, clicks),
     zeros |-> Cardinality({c \in 1..clicks :
                               AfterClicks(position, direction, c) = 0})]

\* The whole list turned click by click from a position.
RECURSIVE ClickList(_, _, _)
ClickList(instructions, k, position) ==
    IF k = 0 THEN [position |-> position, zeros |-> 0]
    ELSE LET before == ClickList(instructions, k - 1, position)
             turn == ClickByClick(before.position, instructions[k][1],
                                  instructions[k][2])
         IN [position |-> turn.position, zeros |-> before.zeros + turn.zeros]

\* C14: for every position 0..99, direction L or R and distance >= 0,
\* count_zeros_crossed is the number of clicks of the click-by-click turn
\* after which the dial points at 0, and solve_part2 is that count over the
\* whole list from position 50.
C14_ZerosMatchClickByClick ==
    /\ dial.pc \in {"loop", "done"} =>
          LET walked == ClickList(dial.instructions, dial.k, STARTING_POSITION)
          IN /\ dial.position \in 0..(DIAL_SIZE - 1)
             /\ dial.position = walked.position
             /\ dial.total = walked.zeros
    /\ (dial.pc = "loop" /\ dial.k < Len(dial.instructions)) =>
          LET instruction == dial.instructions[dial.k + 1]
          IN count_zeros_crossed(dial.position, instruction[1], instruction[2])
                = ClickByClick(dial.position, instruction[1],
                               instruction[2]).zeros
    /\ dial.pc = "done" =>
          /\ dial.k = Len(dial.instructions)
          /\ dial.result = <<dial.total>>

\* A call that turned left from 0 for two full turns: the start on 0 is not
\* counted, the two landings on 0 are.
C14_Witness ==
    /\ dial.pc = "done"
    /\ Len(dial.instructions) = 2
    /\ dial.instructions[1] = <<"R", STARTING_POSITION>>
    /\ dial.instructions[2] = <<"L", 2 * DIAL_SIZE>>
    /\ dial.result = <<3>>

\* ---------------------------------------------------------------------
\* Day 11: the reactor graph. setup() calls add_edges once per input line;
\* solve_part1 is dfs("you", "out", {}, set()). A dict is a function on
\* its key set, a call that mutates cache and seen returns them.
\* ---------------------------------------------------------------------
\* The input has at most MaxLines lines.
MaxLines == 3
\* A line names at most MaxOutputs outputs.
MaxOutputs == 2

Nodes == {"you", "out", "a", "b"}

OutputLists == UNION {[1..n -> Nodes] : n \in 0..MaxOutputs}

EmptyDict == [n \in {} |-> 0]

\* dict.get(key, default)
get(dict, key, default) == IF key \in DOMAIN dict THEN dict[key] ELSE default

\* Graph.add_edges
add_edges(adjacency_list, from_node, to_nodes) ==
    [n \in DOMAIN adjacency_list \cup {from_node} |->
        IF n = from_node
        THEN get(adjacency_list, from_node, <<>>) \o to_nodes
        ELSE adjacency_list[n]]

\* Graph.dfs: the value returned, with cache and seen as the call leaves
\* them. dfs_neighbors is its for loop from the k-th neighbor on, carrying
\* total_paths, cache and seen in acc.
RECURSIVE dfs(_, _, _, _, _)
RECURSIVE dfs_neighbors(_, _, _, _, _)
dfs_neighbors(adjacency_list, neighbors, k, target_node, acc) ==
    IF k > Len(neighbors) THEN acc
    ELSE IF neighbors[k] \in acc.seen
    THEN dfs_neighbors(adjacency_list, neighbors, k + 1, target_node, acc)
    ELSE LET r == dfs(adjacency_list, neighbors[k], target_node,
                      acc.cache, acc.seen)
         IN dfs_neighbors(adjacency_list, neighbors, k + 1, target_node,
                [total_paths |-> acc.total_paths + r.total_paths,
                 cache |-> r.cache,
                 seen |-> r.seen])

dfs(adjacency_list, start_node, target_node, cache, seen) ==
    IF start_node = target_node
    THEN [total_paths |-> 1, cache |-> cache, seen |-> seen]
    ELSE IF start_node \in DOMAIN cache
    THEN [total_paths |-> cache[start_node], cache |-> cache, seen |-> seen]
    ELSE LET r == dfs_neighbors(adjacency_list,
                      get(adjacency_list, start_node, <<>>), 1, target_node,
                      [total_paths |-> 0, cache |-> cache,
                       seen |-> seen \cup {start_node}])
         IN [total_paths |-> r.total_paths,
             cache |-> [n \in DOMAIN r.cache \cup {start_node} |->
                           IF n = start_node THEN r.total_paths
                           ELSE r.cache[n]],
             seen |-> r.seen \ {start_node}]

InitReactor ==
    /\ Day9Idle
    /\ cafeteria = Idle
    /\ playground = Idle
    /\ spans = Idle
    /\ dial = Idle
    /\ forklift = Idle
    /\ factory = Idle
    /\ reactor = [pc |-> "setup", lines |-> 0, adjacency_list |-> EmptyDict,
                  start_node |-> "", target_node |-> "", result |-> <<>>]

\* One pass of the for loop of setup: graph.add_edges(from_node, to_nodes)
AddEdges ==
    /\ reactor.pc = "setup"
    /\ reactor.lines < MaxLines
    /\ \E from_node \in Nodes, to_nodes \in OutputLists :
          reactor' = [reactor EXCEPT
                        !.lines = reactor.lines + 1,
                        !.adjacency_list =
                            add_edges(reactor.adjacency_list, from_node, to_nodes)]
    /\ UNCHANGED <<vars, spans, dial, forklift, factory, cafeteria, playground>>

\* graph.dfs(start_node, target_node, {}, set()) on the graph setup returned
Dfs ==
    /\ reactor.pc = "setup"
    /\ \E start_node \in Nodes, target_node \in Nodes :
          reactor' = [reactor EXCEPT
                        !.pc = "done",
                        !.start_node = start_node,
                        !.target_node = target_node,
                        !.result = <<dfs(reactor.adjacency_list, start_node,
                                         target_node, EmptyDict, {}).total_paths>>]
    /\ UNCHANGED <<vars, spans, dial, forklift, factory, cafeteria, playground>>

NextReactor == AddEdges \/ Dfs

SpecReactor == InitReactor /\ [][NextReactor]_all_vars

\* ----------------------------------------------------------------- C15
\* The simple paths of the graph from start to target, as node sequences:
\* no node twice, each step an edge of the adjacency list.
SimplePaths(adjacency_list, start_node, target_node) ==
    {path \in UNION {[1..n -> Nodes] : n \in 1..Cardinality(Nodes)} :
        /\ path[1] = start_node
        /\ path[Len(path)] = target_node
        /\ \A a \in 1..Len(path), b \in 1..Len(path) :
              a # b => path[a] # path[b]
        /\ \A a \in 1..(Len(path) - 1) :
              path[a + 1] \in Range(get(adjacency_list, path[a], <<>>))}

\* No node is named twice among the outputs of one node.
NoParallelEdges(adjacency_list) ==
    \A n \in DOMAIN adjacency_list :
        \A a \in 1..Len(adjacency_list[n]), b \in 1..Len(adjacency_list[n]) :
            a # b => adjacency_list[n][a] # adjacency_list[n][b]

\* C15: for every directed graph built with add_edges (cycles allowed, no
\* output named twice) and every start and target, dfs with an empty cache
\* and an empty seen set returns the number of distinct simple paths.
C15_DfsCountsSimplePaths ==
    (reactor.pc = "done" /\ NoParallelEdges(reactor.adjacency_list)) =>
        reactor.result =
            <<Cardinality(SimplePaths(reactor.adjacency_list,
                                      reactor.start_node, reactor.target_node))>>

\* ---------------------------------------------------------------------
\* Day 4: the forklift. solve_part2 clears accessible paper rolls in a
\* first row-by-row pass over the grid, then pops candidates until the set
\* is empty. Rows and columns are the code's 0-based indices; paper_grid is
\* the mutable list of lists structure_data makes of the parsed lines.
\* ---------------------------------------------------------------------
MAX_ADJACENT_FOR_ACCESS == 4

\* Every grid of SmallSide x SmallSide cells is an input.
SmallSide == 3
\* The grid of LargeSide x LargeSide cells that is all paper rolls is an
\* input (the smallest square in which rolls can remain).
LargeSide == 4

PAPER_ROLL == "@"
CLEAR == "."

GridsOf(side) == [1..side -> [1..side -> {PAPER_ROLL, CLEAR}]]

Grids ==
    GridsOf(SmallSide) \cup {[r \in 1..LargeSide |-> [c \in 1..LargeSide |-> PAPER_ROLL]]}

\* find_adjacent_papers: the positions of the paper rolls among the up to
\* eight cells around (row, col). The code returns them as a list of
\* distinct positions, of which only the length and the members are used.
find_adjacent_papers(paper_grid, row, col) ==
    LET rows == Len(paper_grid)
        cols == Len(paper_grid[1])
        adjacent_rows == {row} \cup (IF row - 1 >= 0 THEN {row - 1} ELSE {})
                               \cup (IF row + 1 < rows THEN {row + 1} ELSE {})
        adjacent_cols == {col} \cup (IF col - 1 >= 0 THEN {col - 1} ELSE {})
                               \cup (IF col + 1 < cols THEN {col + 1} ELSE {})
    IN {rc \in adjacent_rows \X adjacent_cols :
           /\ rc # <<row, col>>
           /\ paper_grid[rc[1] + 1][rc[2] + 1] = PAPER_ROLL}

is_accessible_roll(paper_grid, row, col) ==
    /\ paper_grid[row + 1][col + 1] = PAPER_ROLL
    /\ Cardinality(find_adjacent_papers(paper_grid, row, col))
          < MAX_ADJACENT_FOR_ACCESS

clear_cell(paper_grid, row, col) ==
    [paper_grid EXCEPT ![row + 1][col + 1] = CLEAR]

InitForklift ==
    /\ Day9Idle
    /\ cafeteria = Idle
    /\ playground = Idle
    /\ spans = Idle
    /\ dial = Idle
    /\ reactor = Idle
    /\ factory = Idle
    /\ forklift \in {[pc |-> "first_pass", parsed |-> g, paper_grid |-> g,
                      n |-> 0, candidates |-> {}, accessible_count |-> 0,
                      result |-> <<>>] : g \in Grids}

\* One pass of the body of the for loops of lines 126-136, on cell number
\* n in row-major order (row = n // cols, col = n % cols); after the last
\* cell the while loop is entered.
ScanCell ==
    /\ forklift.pc = "first_pass"
    /\ LET rows == Len(forklift.paper_grid)
           cols == Len(forklift.paper_grid[1])
           row == forklift.n \div cols
           col == forklift.n % cols
           next_pc == IF forklift.n + 1 < rows * cols
                      THEN "first_pass" ELSE "pop_loop"
       IN IF is_accessible_roll(forklift.paper_grid, row, col)
          THEN forklift' = [forklift EXCEPT
                  !.pc = next_pc,
                  !.n = forklift.n + 1,
                  !.accessible_count = forklift.accessible_count + 1,
                  !.paper_grid = clear_cell(forklift.paper_grid, row, col),
                  !.candidates = forklift.candidates \cup {<<row, col>>}
                      \cup find_adjacent_papers(forklift.paper_grid, row, col)]
          ELSE forklift' = [forklift EXCEPT
                  !.pc = next_pc,
                  !.n = forklift.n + 1]
    /\ UNCHANGED <<vars, spans, dial, reactor, factory, cafeteria, playground>>

\* A plausible slip: a cleared roll's neighbours are not put back among
\* the candidates.
PopCandidateNoRequeue ==
    /\ forklift.pc = "pop_loop"
    /\ \E rc \in forklift.candidates :
          IF is_accessible_roll(forklift.paper_grid, rc[1], rc[2])
          THEN forklift' = [forklift EXCEPT
                  !.accessible_count = forklift.accessible_count + 1,
                  !.paper_grid = clear_cell(forklift.paper_grid, rc[1], rc[2]),
                  !.candidates = forklift.candidates \ {rc}]
          ELSE forklift' = [forklift EXCEPT
                  !.candidates = forklift.candidates \ {rc}]
    /\ UNCHANGED <<vars, spans, dial, reactor, factory, cafeteria, playground>>

\* One pass of the while loop (lines 138-147): candidates.pop() hands out
\* an arbitrary member.
PopCandidate ==
    /\ forklift.pc = "pop_loop"
    /\ \E rc \in forklift.candidates :
          IF is_accessible_roll(forklift.paper_grid, rc[1], rc[2])
          THEN forklift' = [forklift EXCEPT
                  !.accessible_count = forklift.accessible_count + 1,
                  !.paper_grid = clear_cell(forklift.paper_grid, rc[1], rc[2]),
                  !.candidates = (forklift.candidates \ {rc})
                      \cup find_adjacent_papers(forklift.paper_grid,
                                                rc[1], rc[2])]
          ELSE forklift' = [forklift EXCEPT
                  !.candidates = forklift.candidates \ {rc}]
    /\ UNCHANGED <<vars, spans, dial, reactor, factory, cafeteria, playground>>

\* return accessible_count (line 149)
ForkliftReturn ==
    /\ forklift.pc = "pop_loop"
    /\ forklift.candidates = {}
    /\ forklift' = [forklift EXCEPT !.pc = "done",
                                    !.result = <<forklift.accessible_count>>]
    /\ UNCHANGED <<vars, spans, dial, reactor, factory, cafeteria, playground>>

NextForklift == ScanCell \/ PopCandidate \/ ForkliftReturn

SpecForklift == InitForklift /\ [][NextForklift]_all_vars

\* The loop is run to its end: a step that can be taken is taken.
FairSpecForklift == SpecForklift /\ WF_all_vars(NextForklift)

\* ----------------------------------------------------------------- C16
\* The rolls of a grid, as 0-based (row, col) positions.
RollsOf(grid) ==
    {rc \in (0..(Len(grid) - 1)) \X (0..(Len(grid[1]) - 1)) :
        grid[rc[1] + 1][rc[2] + 1] = PAPER_ROLL}

\* The rolls of S around a position (the eight neighbours).
Around(S, rc) ==
    {q \in S : /\ q # rc
               /\ q[1] - rc[1] \in {-1, 0, 1}
               /\ q[2] - rc[2] \in {-1, 0, 1}}

\* Repeated removal in rounds: all rolls with fewer than 4 adjacent rolls
\* are taken away together, until no such roll is left.
RECURSIVE Remaining(_)
Remaining(S) ==
    LET accessible == {rc \in S : Cardinality(Around(S, rc)) < 4}
    IN IF accessible = {} THEN S ELSE Remaining(S \ accessible)

C16_WitnessRemaining ==
    /\ forklift.pc = "done"
    /\ Cardinality(RollsOf(forklift.paper_grid)) = 12
    /\ forklift.result = <<4>>

\* ---------------------------------------------------------------------
\* Day 10: the factory. find_min_button_presses_lights is a breadth-first
\* search from the all-off configuration. A configuration is the list of
\* 0/1 of the code, a button the list of light indices it toggles (the
\* code's 0-based indices). A returned value is <<n>> for the integer n and
\* <<>> for None.
\* ---------------------------------------------------------------------
\* A machine has at most MaxLights lights.
MaxLights == 3
\* A machine has at most MaxButtons buttons.
MaxButtons == 3
\* A button is wired to at most MaxWires lights.
MaxWires == 2

None == <<>>

ButtonsOf(num_lights) ==
    UNION {[1..n -> 0..(num_lights - 1)] : n \in 1..MaxWires}

Machines ==
    UNION {[target : [1..num_lights -> {0, 1}],
            buttons : UNION {[1..n -> ButtonsOf(num_lights)] : n \in 0..MaxButtons}]
           : num_lights \in 0..MaxLights}

\* A plausible slip: a wired light is switched on instead of toggled.
RECURSIVE press_switch_on(_, _, _)
press_switch_on(lights, button, k) ==
    IF k > Len(button) THEN lights
    ELSE press_switch_on([lights EXCEPT ![button[k] + 1] = 1], button, k + 1)

\* Lines 112-114: new_lights after the indices of button from the k-th on
\* are toggled.
RECURSIVE press(_, _, _)
press(lights, button, k) ==
    IF k > Len(button) THEN lights
    ELSE press([lights EXCEPT ![button[k] + 1] = 1 - lights[button[k] + 1]],
               button, k + 1)

\* The for loop of lines 111-126 from the k-th button on, for the dequeued
\* (lights, presses); acc carries seen and queue, and the value returned
\* from inside the loop, if any.
RECURSIVE button_loop(_, _, _, _, _, _)
button_loop(target, buttons, k, lights, presses, acc) ==
    IF k > Len(buttons) THEN acc
    ELSE LET new_lights == press(lights, buttons[k], 1)
             next_presses == presses + 1
         IN IF new_lights \in DOMAIN acc.seen
               /\ acc.seen[new_lights] <= next_presses
            THEN button_loop(target, buttons, k + 1, lights, presses, acc)
            ELSE IF new_lights = target
            THEN [acc EXCEPT !.returned = <<(<<next_presses>>)>>]
            ELSE button_loop(target, buttons, k + 1, lights, presses,
                    [returned |-> <<>>,
                     seen |-> [st \in DOMAIN acc.seen \cup {new_lights} |->
                                  IF st = new_lights THEN next_presses
                                  ELSE acc.seen[st]],
                     queue |-> Append(acc.queue, <<new_lights, next_presses>>)])

InitFactory ==
    /\ Day9Idle
    /\ cafeteria = Idle
    /\ playground = Idle
    /\ spans = Idle
    /\ dial = Idle
    /\ reactor = Idle
    /\ forklift = Idle
    /\ factory \in {[pc |-> "start", target |-> m.target, buttons |-> m.buttons,
                     seen |-> <<>>, queue |-> <<>>, result |-> <<>>]
                    : m \in Machines}

\* Lines 99-106.
StartSearch ==
    /\ factory.pc = "start"
    /\ LET initial == [k \in 1..Len(factory.target) |-> 0]
       IN IF initial = factory.target
          THEN factory' = [factory EXCEPT !.pc = "done",
                                          !.result = <<(<<0>>)>>]
          ELSE factory' = [factory EXCEPT
                             !.pc = "bfs",
                             !.seen = [st \in {initial} |-> 0],
                             !.queue = <<(<<initial, 0>>)>>]
    /\ UNCHANGED <<vars, spans, dial, reactor, forklift, cafeteria, playground>>

\* One pass of the while loop (lines 108-126): popleft, then every button.
Dequeue ==
    /\ factory.pc = "bfs"
    /\ factory.queue # <<>>
    /\ LET head == Head(factory.queue)
           r == button_loop(factory.target, factory.buttons, 1,
                            head[1], head[2],
                            [returned |-> <<>>, seen |-> factory.seen,
                             queue |-> Tail(factory.queue)])
       IN IF r.returned # <<>>
          THEN factory' = [factory EXCEPT !.pc = "done",
                                          !.result = r.returned,
                                          !.seen = r.seen,
                                          !.queue = r.queue]
          ELSE factory' = [factory EXCEPT !.seen = r.seen, !.queue = r.queue]
    /\ UNCHANGED <<vars, spans, dial, reactor, forklift, cafeteria, playground>>

\* return None (line 128)
ReturnNone ==
    /\ factory.pc = "bfs"
    /\ factory.queue = <<>>
    /\ factory' = [factory EXCEPT !.pc = "done", !.result = <<None>>]
    /\ UNCHANGED <<vars, spans, dial, reactor, forklift, cafeteria, playground>>

NextFactory == StartSearch \/ Dequeue \/ ReturnNone

SpecFactory == InitFactory /\ [][NextFactory]_all_vars

\* The search is run to its end: a step that can be taken is taken.
FairSpecFactory == SpecFactory /\ WF_all_vars(NextFactory)

\* ----------------------------------------------------------------- C17
\* The configuration after each button of the set S of button positions
\* is pressed once, from all-off: a light is on when an odd number of
\* wires of the pressed buttons lead to it. (Pressing a button twice
\* undoes it and the order of presses does not matter, so every sequence
\* of presses ends where the set of buttons pressed an odd number of times
\* does.)
AfterPressing(target, buttons, S) ==
    [light \in 1..Len(target) |->
        Cardinality({w \in S \X (1..MaxWires) :
                        /\ w[2] <= Len(buttons[w[1]])
                        /\ buttons[w[1]][w[2]] + 1 = light}) % 2]

Reaching(target, buttons) ==
    {S \in SUBSET (1..Len(buttons)) : AfterPressing(target, buttons, S) = target}

LeastPresses(target, buttons) ==
    IF Reaching(target, buttons) = {} THEN None
    ELSE <<min({Cardinality(S) : S \in Reaching(target, buttons)})>>

\* C17: for every target and button list find_min_button_presses_lights
\* ends and returns the least number of presses that takes all-off to the
\* target (0 when the target is all-off), and None exactly when no sequence
\* of presses reaches the target.
C17_LeastPresses ==
    /\ <>(factory.pc = "done")
    /\ [](factory.pc = "done" =>
            /\ factory.result = <<LeastPresses(factory.target, factory.buttons)>>
            /\ (\A k \in 1..Len(factory.target) : factory.target[k] = 0)
                  => factory.result = <<(<<0>>)>>)

\* The search returned 3: all three buttons are needed.
C17_Witness ==
    /\ factory.pc = "done"
    /\ factory.result = <<(<<3>>)>>
    /\ Len(factory.buttons) = 3

\* The search emptied its queue and returned None although the machine has
\* three buttons.
C17_WitnessNone ==
    /\ factory.pc = "done"
    /\ factory.result = <<None>>
    /\ Len(factory.buttons) = MaxButtons
    /\ Len(factory.target) = MaxLights

\* =====================================================================
\* Day 9 again: the compressed grid, the prefix sum and the search.
\* =====================================================================
\* The 0-based columns and rows of the compressed grid.
Columns == 0..(Len(x_edges) - 2)
Rows == 0..(Len(y_edges) - 2)

\* The tiles of the compressed cell (row, column).
CellTiles(row, column) ==
    (x_edges[column + 1]..(x_edges[column + 2] - 1))
        \X (y_edges[row + 1]..(y_edges[row + 2] - 1))

\* The classification build_prefix_sum_from_scanlines gives the cell: that
\* of its representative tile (x_edges[column], y_edges[row]).
Classified(row, column) ==
    inside_or_boundary(x_edges[column + 1], y_edges[row + 1],
        build_crossing_x_values_for_row(y_edges[row + 1], vertical_edges),
        vertical_intervals_by_x, horizontal_intervals_by_y)

\* build_allowed_tiles_prefix_sum has just returned.
JustBuilt == pc = "search" /\ i = 0 /\ j = 1

\* ----------------------------------------------------------------- C21
\* C21: for every simple orthogonal polygon and every compressed cell,
\* every tile of the cell is allowed (on the boundary or inside) exactly
\* when the representative tile (x_i, y_j) is classified allowed, so the
\* cell's weight width * height (or 0) is the number of its allowed tiles.
C21_CellsUniform ==
    (JustBuilt /\ IsSimplePolygon(coords)) =>
        \A row \in Rows, column \in Columns :
            /\ \A t \in CellTiles(row, column) :
                  TileAllowed(coords, t) <=> Classified(row, column)
            /\ CellWeight(row, column) =
                  Cardinality({t \in CellTiles(row, column) :
                                  TileAllowed(coords, t)})

\* A simple polygon with an allowed cell of several tiles none of which is
\* on the boundary, and a cell of several tiles that is not allowed.
C21_Witness ==
    /\ JustBuilt
    /\ IsSimplePolygon(coords)
    /\ \E row \in Rows, column \in Columns :
          /\ CellArea(row, column) >= 4
          /\ CellWeight(row, column) = CellArea(row, column)
          /\ \A t \in CellTiles(row, column) : ~OnPolygonEdge(coords, t)
    /\ \E row \in Rows, column \in Columns :
          /\ CellArea(row, column) >= 2
          /\ CellWeight(row, column) = 0

\* ----------------------------------------------------------------- C22
\* The cell is weighted as allowed.
CellAllowed(row, column) == CellWeight(row, column) # 0

ColumnsDiffer(column) ==
    \E row \in Rows : CellAllowed(row, column) # CellAllowed(row, column + 1)

RowsDiffer(row) ==
    \E column \in Columns : CellAllowed(row, column) # CellAllowed(row + 1, column)

\* C22 as stated: every two adjacent compressed columns, and every two
\* adjacent rows, are classified differently at some cell position.
C22_MaximalRegions ==
    JustBuilt =>
        /\ \A column \in Columns \ {Len(x_edges) - 2} : ColumnsDiffer(column)
        /\ \A row \in Rows \ {Len(y_edges) - 2} : RowsDiffer(row)

\* C22, amended: two adjacent compressed columns (rows) can be classified
\* alike at every cell position; they differ at some position only if the
\* coordinate between them is v or v + 1 for a vertex coordinate v, never
\* if it is in the axis only as some v - 1.
C22_DifferOnlyAtVertexLines ==
    JustBuilt =>
        /\ \A column \in Columns \ {Len(x_edges) - 2} :
              ColumnsDiffer(column) =>
                 \E c \in Range(coords) :
                     x_edges[column + 2] \in {c[1], c[1] + 1}
        /\ \A row \in Rows \ {Len(y_edges) - 2} :
              RowsDiffer(row) =>
                 \E c \in Range(coords) :
                     y_edges[row + 2] \in {c[2], c[2] + 1}

\* A simple polygon with two adjacent columns alike at every row although
\* some cell of the grid is allowed and another is not, and two columns
\* that a coordinate v - 1 alone separates.
C22_Witness ==
    /\ JustBuilt
    /\ IsSimplePolygon(coords)
    /\ \E row \in Rows, column \in Columns : CellAllowed(row, column)
    /\ \E row \in Rows, column \in Columns : ~CellAllowed(row, column)
    /\ \E column \in Columns \ {Len(x_edges) - 2} :
          /\ ~ColumnsDiffer(column)
          /\ \A c \in Range(coords) :
                x_edges[column + 2] \notin {c[1], c[1] + 1}

\* ----------------------------------------------------------------- C23
\* The weight of the cell: width * height if classified allowed, else 0.
Weight(row, column) ==
    IF Classified(row, column) THEN CellArea(row, column) ELSE 0

\* The sum of a function's values over a finite set of its arguments.
RECURSIVE SumOver(_, _)
SumOver(f, S) ==
    IF S = {} THEN 0
    ELSE LET e == CHOOSE e \in S : TRUE
         IN f[e] + SumOver(f, S \ {e})

\* C23: the array has (rows + 1) x (columns + 1) entries, row 0 and column
\* 0 are zero, prefix_sum[r][c] is the sum of the weights of the cells
\* with row < r and column < c, and the four-corner difference of a block
\* of cells is the sum of the block's weights.
C23_PrefixSumIsCumulative ==
    JustBuilt =>
        LET weights == [cell \in Rows \X Columns |-> Weight(cell[1], cell[2])]
            rows == Len(y_edges) - 1
            columns == Len(x_edges) - 1
        IN /\ Len(prefix_sum) = rows + 1
           /\ \A r \in 0..rows : Len(prefix_sum[r + 1]) = columns + 1
           /\ \A c \in 0..columns : prefix_sum[1][c + 1] = 0
           /\ \A r \in 0..rows : prefix_sum[r + 1][1] = 0
           /\ \A r \in 0..rows, c \in 0..columns :
                 prefix_sum[r + 1][c + 1] =
                    SumOver(weights, (0..(r - 1)) \X (0..(c - 1)))
           /\ \A r1 \in 0..rows, r2 \in 0..rows, c1 \in 0..columns, c2 \in 0..columns :
                 (r1 <= r2 /\ c1 <= c2) =>
                    prefix_sum[r2 + 1][c2 + 1] - prefix_sum[r1 + 1][c2 + 1]
                    - prefix_sum[r2 + 1][c1 + 1] + prefix_sum[r1 + 1][c1 + 1]
                    = SumOver(weights, (r1..(r2 - 1)) \X (c1..(c2 - 1)))

\* An array of at least four rows of cells in which allowed and other cells
\* occur and a later row adds to the rows above it.
C23_Witness ==
    /\ JustBuilt
    /\ Len(prefix_sum) >= 5
    /\ \E row \in Rows, column \in Columns : Weight(row, column) = 0
    /\ \E row \in Rows, column \in Columns : Weight(row, column) > 1
    /\ prefix_sum[Len(prefix_sum)][Len(x_edges)]
          > prefix_sum[Len(prefix_sum) - 1][Len(x_edges)]
    /\ prefix_sum[2][Len(x_edges)] > 0

\* ----------------------------------------------------------------- C24
\* The 0-based pairs a < b of vertex indices.
IndexPairs == {pr \in (0..(Len(coords) - 1)) \X (0..(Len(coords) - 1)) : pr[1] < pr[2]}

\* The pairs the search has visited when its loop variables are (a, b): those
\* before (a, b) in the order of the two nested loops.
VisitedBefore(a, b) ==
    {pr \in IndexPairs : pr[1] < a \/ (pr[1] = a /\ pr[2] < b)}

\* C24: the search starts with no pair visited; each step visits one pair
\* i < j that was not visited before and adds just it to the visited pairs;
\* the running maximum never decreases; after every step it is 0 or the
\* area of a visited pair whose allowed-tile count equals its area; and the
\* search ends, with every pair visited, n(n-1)/2 of them.
C24_SearchVisitsEachPairOnce ==
    /\ [](JustBuilt => VisitedBefore(i, j) = {})
    /\ [][(pc = "search" /\ <<i, j>>' # <<i, j>>) =>
             /\ <<i, j>> \in IndexPairs
             /\ <<i, j>> \notin VisitedBefore(i, j)
             /\ VisitedBefore(i', j') = VisitedBefore(i, j) \cup {<<i, j>>}]_all_vars
    /\ [][pc = "search" => max_rect_area' >= max_rect_area]_all_vars
    /\ [](pc \in {"search", "done"} =>
             \/ max_rect_area = 0
             \/ \E pr \in VisitedBefore(i, j) :
                   LET rect == rectangle_of(coords[pr[1] + 1], coords[pr[2] + 1])
                   IN /\ area_of(rect) = max_rect_area
                      /\ ~Query(rect).raised
                      /\ Query(rect).count = max_rect_area)
    /\ [](pc = "done" =>
             /\ VisitedBefore(i, j) = IndexPairs
             /\ 2 * Cardinality(VisitedBefore(i, j))
                   = Len(coords) * (Len(coords) - 1))
    /\ (pc = "search" ~> pc = "done")

\* A finished search over at least four vertices that accepted a pair,
\* skipped a smaller one and rejected a larger, not covered one.
C24_Witness ==
    /\ pc = "done"
    /\ Len(coords) >= 4
    /\ max_rect_area > 1
    /\ \E pr \in IndexPairs :
          area_of(rectangle_of(coords[pr[1] + 1], coords[pr[2] + 1])) > max_rect_area
    /\ \E pr \in IndexPairs :
          area_of(rectangle_of(coords[pr[1] + 1], coords[pr[2] + 1])) < max_rect_area

\* ----------------------------------------------------------------- C28
\* build_edges has just returned the edges of an orthogonal loop.
EdgesJustBuilt == pc = "build_edge_interval_maps"

\* The integer rows of the input set, and one row beyond at either side.
RowsOfInterest == -2..(MaxCoord + 1)

\* The indices k of the vertical, non-degenerate loop segments from
\* vertex k to its successor that cover row y in [y_min, y_max).
CrossingSegments(cs, y) ==
    {k \in 1..Len(cs) :
        LET p == cs[k]
            q == Successor(cs, k)
        IN /\ p[1] = q[1]
           /\ p[2] # q[2]
           /\ min({p[2], q[2]}) <= y
           /\ y < max({p[2], q[2]})}

\* C28: for every closed orthogonal loop and every integer row y the list
\* of crossing x values is sorted, holds one entry per vertical edge with
\* y_min <= y < y_max (no degenerate edge, no edge only ending at y) and
\* has even length.
C28_CrossingsSortedAndEven ==
    EdgesJustBuilt =>
        \A y \in RowsOfInterest :
            LET crossing_x_values ==
                    build_crossing_x_values_for_row(y, vertical_edges)
                segments == CrossingSegments(coords, y)
            IN /\ \A a \in 1..Len(crossing_x_values), b \in 1..Len(crossing_x_values) :
                      a < b => crossing_x_values[a] <= crossing_x_values[b]
               /\ Len(crossing_x_values) = Cardinality(segments)
               /\ \A x \in Axis \cup Range(crossing_x_values) :
                      Cardinality({a \in 1..Len(crossing_x_values) :
                                      crossing_x_values[a] = x})
                      = Cardinality({k \in segments : coords[k][1] = x})
               /\ Len(crossing_x_values) % 2 = 0

\* A loop and a row that several vertical edges cover, listed out of x
\* order by build_edges, while another vertical edge only ends at that row.
C28_Witness ==
    /\ EdgesJustBuilt
    /\ \E y \in RowsOfInterest :
          /\ Len(build_crossing_x_values_for_row(y, vertical_edges)) >= 2
          /\ crossing_loop(y, vertical_edges, 1)
                # build_crossing_x_values_for_row(y, vertical_edges)
          /\ \E k \in 1..Len(vertical_edges) :
                vertical_edges[k][2] < y /\ vertical_edges[k][3] = y

\* A loop with a degenerate vertical edge (a repeated vertex) on a row that
\* other vertical edges cover.
C28_WitnessDegenerate ==
    /\ EdgesJustBuilt
    /\ \E k \in 1..Len(vertical_edges) :
          /\ vertical_edges[k][2] = vertical_edges[k][3]
          /\ Len(build_crossing_x_values_for_row(vertical_edges[k][2],
                                                 vertical_edges)) >= 2

\* ----------------------------------------------------------------- C29
\* solve_part1, lines 29-44: the largest inclusive area over all pairs of
\* vertices, 0 when there is no pair.
RECURSIVE solve_part1_loop(_, _, _, _)
solve_part1_loop(cs, a, b, best) ==
    IF a > Len(cs) THEN best
    ELSE IF b > Len(cs) THEN solve_part1_loop(cs, a + 1, a + 2, best)
    ELSE solve_part1_loop(cs, a, b + 1, max({best, rect_area(cs[a], cs[b])}))

solve_part1(cs) == solve_part1_loop(cs, 1, 2, 0)

\* C29: for every closed orthogonal loop of at least two vertices the
\* result of solve_part2 is at least the inclusive area of the rectangle
\* (a segment) spanned by every two consecutive vertices, the last and the
\* first included, and at most the result of solve_part1 for the list.
C29_BetweenSegmentsAndPart1 ==
    (pc = "done" /\ Len(coords) >= 2) =>
        /\ \A k \in 1..Len(coords) :
              result[1] >= rect_area(coords[k], Successor(coords, k))
        /\ result[1] <= solve_part1(coords)

\* A finished run on a loop whose result exceeds its longest segment and
\* stays below the part 1 answer.
C29_Witness ==
    /\ pc = "done"
    /\ Len(coords) >= 4
    /\ \A k \in 1..Len(coords) :
          result[1] > rect_area(coords[k], Successor(coords, k))
    /\ result[1] < solve_part1(coords)

\* ----------------------------------------------------------------- C30
\* The two nested loops of solve_part2 (lines 352-367), from the pair
\* (a, b), 0-based, with the running maximum best.
RECURSIVE search_loop(_, _, _, _, _, _, _)
search_loop(cs, ps, xmap, ymap, a, b, best) ==
    IF b >= Len(cs) THEN [raised |-> FALSE, value |-> best]
    ELSE LET rect == rectangle_of(cs[a + 1], cs[b + 1])
             area == area_of(rect)
             q == count_allowed_tiles_in_rectangle(ps, xmap, ymap,
                      rect[1], rect[2], rect[3], rect[4])
             next_a == IF b + 1 < Len(cs) THEN a ELSE a + 1
             next_b == IF b + 1 < Len(cs) THEN b + 1 ELSE a + 2
         IN IF skip_candidate(area, best)
            THEN search_loop(cs, ps, xmap, ymap, next_a, next_b, best)
            ELSE IF q.raised THEN [raised |-> TRUE, value |-> 0]
            ELSE search_loop(cs, ps, xmap, ymap, next_a, next_b,
                     IF covered(q.count, area) THEN area ELSE best)

\* solve_part2 as one function of its argument (lines 321-369).
solve_part2(cs) ==
    LET b == get_bounding_box(cs)
        e == build_edges(cs)
    IN IF b.raised \/ e.raised THEN [raised |-> TRUE, value |-> 0]
       ELSE LET m == build_edge_interval_maps(e.vertical, e.horizontal)
                c == build_compressed_edges(cs, b.box[1], b.box[2],
                                            b.box[3], b.box[4])
                ps == build_prefix_sum_from_scanlines(c.x_edges, c.y_edges,
                          e.vertical, m.vertical, m.horizontal)
            IN search_loop(cs, ps, c.x_edge_to_index, c.y_edge_to_index, 0, 1, 0)

\* The list started at its vertex r + 1, and the list backwards.
Rotated(cs, r) == [k \in 1..Len(cs) |-> cs[((k - 1 + r) % Len(cs)) + 1]]

Reversed(cs) == [k \in 1..Len(cs) |-> cs[Len(cs) + 1 - k]]

\* C30: solve_part2 returns the same result for every cyclic rotation of
\* the vertex list and for the reversed list.
C30_RotationAndReversal ==
    pc = "done" =>
        /\ solve_part2(coords) = [raised |-> FALSE, value |-> result[1]]
        /\ \A r \in 1..(Len(coords) - 1) :
              solve_part2(Rotated(coords, r)) = [raised |-> FALSE, value |-> result[1]]
        /\ solve_part2(Reversed(coords)) = [raised |-> FALSE, value |-> result[1]]

\* A finished run on a simple polygon of six vertices whose result is not
\* the area of the pair the search visits first, neither in the given list
\* nor in the reversed one.
C30_Witness ==
    /\ pc = "done"
    /\ Len(coords) = 6
    /\ IsSimplePolygon(coords)
    /\ result[1] # rect_area(coords[1], coords[2])
    /\ result[1] # rect_area(coords[6], coords[5])
    /\ Reversed(coords) # coords
    /\ Rotated(coords, 1) # coords

\* ----------------------------------------------------------------- C27
\* The value lies in one of the inclusive intervals of the list.
InSome(intervals, v) ==
    \E k \in 1..Len(intervals) : intervals[k][1] <= v /\ v <= intervals[k][2]

\* C27: merge_intervals neither adds nor loses integers: a value lies in
\* some returned span exactly when it lies in some input interval; so the
\* membership test on the merged spans, with adjacent spans merged, answers
\* as the unmerged intervals would.
C27_MergeKeepsIntegers ==
    spans.pc \in {"interval_contains", "done"} =>
        \A v \in Values :
            /\ InSome(spans.merged, v) <=> InSome(spans.intervals, v)
            /\ interval_contains(spans.merged, v) <=> InSome(spans.intervals, v)

\* Three intervals merged into one span: one nested in another and one
\* that only touches the end of the outer one.
C27_Witness ==
    /\ spans.pc = "interval_contains"
    /\ Len(spans.intervals) = 3
    /\ Len(spans.merged) = 1
    /\ \E a \in 1..3, b \in 1..3, c \in 1..3 :
          /\ spans.intervals[a][1] < spans.intervals[b][1]
          /\ spans.intervals[b][2] < spans.intervals[a][2]
          /\ spans.intervals[c][1] = spans.intervals[a][2] + 1
    /\ \E v \in Values : ~InSome(spans.intervals, v)

\* =====================================================================
\* Day 5: interval_merge and solve_part2 (src/day-5.py).
\* =====================================================================
\* The caller's list holds at most MaxRanges ranges.
MaxRanges == 3

\* The non-empty lists of ranges (start <= end) sorted by start.
RangeLists ==
    {l \in UNION {[1..n -> Intervals] : n \in 1..MaxRanges} :
        \A k \in 1..(Len(l) - 1) : l[k][1] <= l[k + 1][1]}

\* interval_merge, lines 50-58: the loop from the k-th range on.
RECURSIVE interval_merge_loop(_, _, _, _)
interval_merge_loop(sorted_ranges, k, merged, curr) ==
    IF k > Len(sorted_ranges) THEN Append(merged, curr)
    ELSE LET start == sorted_ranges[k][1]
             end == sorted_ranges[k][2]
         IN IF curr[2] < start
            THEN interval_merge_loop(sorted_ranges, k + 1,
                                     Append(merged, curr), <<start, end>>)
            ELSE interval_merge_loop(sorted_ranges, k + 1, merged,
                                     <<curr[1], max({curr[2], end})>>)

\* interval_merge, lines 40-59
interval_merge(sorted_ranges) ==
    interval_merge_loop(sorted_ranges, 2, <<>>, sorted_ranges[1])

\* solve_part2 of day 5, lines 95-105: sum(end - start + 1)
RECURSIVE count_fresh(_, _)
count_fresh(merged_ranges, k) ==
    IF k > Len(merged_ranges) THEN 0
    ELSE merged_ranges[k][2] - merged_ranges[k][1] + 1
         + count_fresh(merged_ranges, k + 1)

InitCafeteria ==
    /\ Day9Idle
    /\ spans = Idle
    /\ dial = Idle
    /\ reactor = Idle
    /\ forklift = Idle
    /\ factory = Idle
    /\ playground = Idle
    /\ cafeteria \in {[pc |-> "interval_merge", range_pairs |-> l,
                       merged_ranges |-> <<>>, total |-> 0] : l \in RangeLists}

\* main, line 119: merged_ranges = interval_merge(range_pairs)
IntervalMerge ==
    /\ cafeteria.pc = "interval_merge"
    /\ cafeteria' = [cafeteria EXCEPT
                        !.pc = "solve_part2",
                        !.merged_ranges = interval_merge(cafeteria.range_pairs)]
    /\ UNCHANGED <<vars, spans, dial, reactor, forklift, factory, playground>>

\* main, line 123: solve_part2(merged_ranges)
CafeteriaSolvePart2 ==
    /\ cafeteria.pc = "solve_part2"
    /\ cafeteria' = [cafeteria EXCEPT
                        !.pc = "done",
                        !.total = count_fresh(cafeteria.merged_ranges, 1)]
    /\ UNCHANGED <<vars, spans, dial, reactor, forklift, factory, playground>>

NextCafeteria == IntervalMerge \/ CafeteriaSolvePart2

SpecCafeteria == InitCafeteria /\ [][NextCafeteria]_all_vars

\* ----------------------------------------------------------------- C25
\* C25: given a non-empty list of ranges sorted by start, in the result of
\* interval_merge no two intervals overlap and no two are adjacent (each
\* start is greater than the previous end + 1), and the result covers
\* exactly the integers covered by the input.
C25_MergedNonAdjacentAndExact ==
    cafeteria.pc \in {"solve_part2", "done"} =>
        /\ \A k \in 1..(Len(cafeteria.merged_ranges) - 1) :
              cafeteria.merged_ranges[k + 1][1] > cafeteria.merged_ranges[k][2] + 1
        /\ \A v \in Values :
              InSome(cafeteria.merged_ranges, v) <=> InSome(cafeteria.range_pairs, v)

\* What interval_merge does establish: the spans do not overlap, each start
\* is greater than the previous end, the integers covered are exactly those
\* of the input, and solve_part2 counts them.
C25_MergedDisjointAndExact ==
    cafeteria.pc \in {"solve_part2", "done"} =>
        /\ \A k \in 1..(Len(cafeteria.merged_ranges) - 1) :
              cafeteria.merged_ranges[k + 1][1] > cafeteria.merged_ranges[k][2]
        /\ \A v \in Values :
              InSome(cafeteria.merged_ranges, v) <=> InSome(cafeteria.range_pairs, v)
        /\ cafeteria.pc = "done" =>
              cafeteria.total =
                 Cardinality({v \in Values : InSome(cafeteria.range_pairs, v)})

\* Two ranges of the input that only touch are returned as two spans.
C25_AdjacentKeptApart ==
    /\ cafeteria.pc = "done"
    /\ Len(cafeteria.range_pairs) = 2
    /\ cafeteria.range_pairs[2][1] = cafeteria.range_pairs[1][2] + 1
    /\ cafeteria.merged_ranges = cafeteria.range_pairs

\* =====================================================================
\* Day 8: find_root and union (src/day-8.py).
\* =====================================================================
\* The most junction boxes of a run.
MaxBoxes == 4

\* find_root, lines 59-63, with its path compression: the parent list after
\* the call and the value returned.  Element x is stored at index x + 1.
RECURSIVE find_root(_, _)
find_root(parent, x) ==
    IF parent[x + 1] # x
    THEN LET r == find_root(parent, parent[x + 1])
         IN [parent |-> [r.parent EXCEPT ![x + 1] = r.root], root |-> r.root]
    ELSE [parent |-> parent, root |-> parent[x + 1]]

\* A plausible slip: the argument b itself, not its root, is hung under the
\* other root.
union_attach_argument(parent, size, a, b) ==
    LET fa == find_root(parent, a)
        fb == find_root(fa.parent, b)
        swap == size[fa.root + 1] < size[fb.root + 1]
        ra == IF swap THEN fb.root ELSE fa.root
        rb == IF swap THEN fa.root ELSE fb.root
    IN IF fa.root = fb.root
       THEN [parent |-> fb.parent, size |-> size, merged |-> FALSE]
       ELSE [parent |-> [fb.parent EXCEPT ![b + 1] = ra],
             size |-> [size EXCEPT ![ra + 1] = size[ra + 1] + size[rb + 1]],
             merged |-> TRUE]

\* union, lines 66-75: the lists after the call and the value returned.
union(parent, size, a, b) ==
    LET fa == find_root(parent, a)
        fb == find_root(fa.parent, b)
        swap == size[fa.root + 1] < size[fb.root + 1]
        ra == IF swap THEN fb.root ELSE fa.root
        rb == IF swap THEN fa.root ELSE fb.root
    IN IF fa.root = fb.root
       THEN [parent |-> fb.parent, size |-> size, merged |-> FALSE]
       ELSE [parent |-> [fb.parent EXCEPT ![rb + 1] = ra],
             size |-> [size EXCEPT ![ra + 1] = size[ra + 1] + size[rb + 1]],
             merged |-> TRUE]

\* solve_part1, lines 90-92: parent = list(range(n)), size = [1] * n.  The
\* field edges holds the pairs unioned so far, last the latest call.
InitPlayground ==
    /\ Day9Idle
    /\ spans = Idle
    /\ dial = Idle
    /\ reactor = Idle
    /\ forklift = Idle
    /\ factory = Idle
    /\ cafeteria = Idle
    /\ \E n \in 1..MaxBoxes :
          playground = [pc |-> "calls", n |-> n,
                        parent |-> [k \in 1..n |-> k - 1],
                        size |-> [k \in 1..n |-> 1],
                        edges |-> {},
                        last |-> [op |-> "none", a |-> 0, b |-> 0,
                                  merged |-> FALSE, root |-> 0]]

\* solve_part1, lines 95-96: union(parent, size, a, b)
Union ==
    /\ playground.pc = "calls"
    /\ \E a \in 0..(playground.n - 1), b \in 0..(playground.n - 1) :
          LET r == union(playground.parent, playground.size, a, b)
          IN playground' = [playground EXCEPT
                               !.parent = r.parent,
                               !.size = r.size,
                               !.edges = playground.edges \cup {{a, b}},
                               !.last = [op |-> "union", a |-> a, b |-> b,
                                         merged |-> r.merged, root |-> 0]]
    /\ UNCHANGED <<vars, spans, dial, reactor, forklift, factory, cafeteria>>

\* solve_part1, line 98: find_root(parent, i)
FindRoot ==
    /\ playground.pc = "calls"
    /\ \E x \in 0..(playground.n - 1) :
          LET r == find_root(playground.parent, x)
          IN playground' = [playground EXCEPT
                               !.parent = r.parent,
                               !.last = [op |-> "find_root", a |-> x, b |-> 0,
                                         merged |-> FALSE, root |-> r.root]]
    /\ UNCHANGED <<vars, spans, dial, reactor, forklift, factory, cafeteria>>

NextPlayground == Union \/ FindRoot

SpecPlayground == InitPlayground /\ [][NextPlayground]_all_vars

\* ----------------------------------------------------------------- C26
Boxes == 0..(playground.n - 1)

\* The representative of x under a parent list.
RootIn(parent, x) == find_root(parent, x).root

\* The elements joined to those of S by a chain of unioned pairs.
RECURSIVE Component(_, _)
Component(S, edges) ==
    LET T == S \cup UNION {e \in edges : e \cap S # {}}
    IN IF T = S THEN S ELSE Component(T, edges)

\* C26: from parent = [0..n-1], size = [1]*n, after any sequence of union
\* and find_root calls two elements have the same root exactly when a
\* chain of unioned pairs connects them; size[r] of every root r is the
\* number of elements whose root is r; union returns True exactly when its
\* arguments were in different sets before the call; and a find_root call
\* returns the root and changes no element's root.
C26_UnionFindSound ==
    /\ [](\A x \in Boxes, y \in Boxes :
             (RootIn(playground.parent, x) = RootIn(playground.parent, y))
                <=> (y \in Component({x}, playground.edges)))
    /\ [](\A r \in Boxes :
             playground.parent[r + 1] = r =>
                playground.size[r + 1] =
                   Cardinality({x \in Boxes : RootIn(playground.parent, x) = r}))
    /\ [][playground'.last.op = "union" =>
             playground'.last.merged =
                (RootIn(playground.parent, playground'.last.a)
                    # RootIn(playground.parent, playground'.last.b))]_all_vars
    /\ [][playground'.last.op = "find_root" =>
             /\ playground'.last.root
                   = RootIn(playground.parent, playground'.last.a)
             /\ playground'.size = playground.size
             /\ \A x \in Boxes :
                   RootIn(playground'.parent, x) = RootIn(playground.parent, x)]_all_vars

\* After a find_root call all four elements point at one root, one of them
\* the former root of a set of two: its child was re-hung by the
\* compression; the last union call before had returned False or True.
C26_Witness ==
    /\ playground.n = 4
    /\ playground.last.op = "find_root"
    /\ \A x \in Boxes : playground.parent[x + 1] = playground.last.root
    /\ \E x \in Boxes :
          /\ x # playground.last.root
          /\ playground.size[x + 1] = 2
    /\ \E e \in playground.edges : Cardinality(e) = 1

====
